---- MODULE Spec2Model ----
(***************************************************************************)
(* Forecast Ensemble Engine of GoldVision's prophet-service                *)
(* (src/prophet-service/enhanced_forecast.py).                             *)
(*                                                                         *)
(* Number representation.  The engine computes with Python floats; the     *)
(* model computes with integers in fixed point:                            *)
(*   prices and predictions   in cents                                     *)
(*   per-model confidences    in thousandths           (1/ConfScale)       *)
(*   the overall confidence   in millionths while it is being boosted,     *)
(*                            in thousandths once rounded to 3 decimals    *)
(*   simple returns, volatility, CV and agreement in thousandths           *)
(*   weights                  as exact fractions w[m] / den                *)
(* Optional values are sequences: <<>> is None, <<v>> is the value v.      *)
(* A missing float (NaN) is the integer NaN.                               *)
(***************************************************************************)
EXTENDS Integers, Sequences, FiniteSets, TLC

VARIABLES
    request,        \* the EnhancedForecastRequest being served
    env,            \* what the library calls of this request do (see the adapters)
    model_weights,  \* the dict request.model_weights refers to, as it is now
    response,       \* what the last call returned or raised
    prev,           \* response and applied weights of the call before the last
    runs,           \* number of calls made with this request
    trace,          \* the stages the last call went through, the weights it applied
    call,           \* a direct call of one of the engine's functions
    result          \* what that call returned

vars == <<request, env, model_weights, response, prev, runs, trace,
          call, result>>

(***************************************************************************)
(* Arithmetic helpers                                                      *)
(***************************************************************************)
ConfScale == 1000
NaN == -1000000000

None == <<>>
Some(v) == <<v>>
IsNone(o) == Len(o) = 0
Val(o) == o[1]

Abs(x) == IF x < 0 THEN -x ELSE x
Min2(a, b) == IF b < a THEN b ELSE a
Max2(a, b) == IF b > a THEN b ELSE a

RECURSIVE SumSeq(_)
SumSeq(s) == IF Len(s) = 0 THEN 0 ELSE s[1] + SumSeq(Tail(s))

RECURSIVE SqrtSearch(_, _, _)
SqrtSearch(n, lo, hi) ==
    IF lo >= hi THEN lo
    ELSE LET mid == (lo + hi + 1) \div 2
         IN  IF mid * mid <= n THEN SqrtSearch(n, mid, hi)
                               ELSE SqrtSearch(n, lo, mid - 1)

\* floor of the square root (np.sqrt / np.std / rolling().std())
ISqrt(n) == IF n <= 0 THEN 0 ELSE SqrtSearch(n, 0, 46340)

\* x * num / den without leaving 32 bits: floor((x * num) / den), den > 0
MulDiv(x, num, den) == (x \div den) * num + ((x % den) * num) \div den

\* Python's round(x, k) seen at the coarser scale: nearest multiple of unit
RoundTo(x, unit) == (2 * x + unit) \div (2 * unit)

LastOf(s) == s[Len(s)]

\* s[-k:] of Python
LastK(s, k) == IF Len(s) <= k THEN s ELSE SubSeq(s, Len(s) - k + 1, Len(s))

(***************************************************************************)
(* Indicator Calculator: rolling volatility                                *)
(***************************************************************************)
RetScale == 1000

\* np.diff(prices) / prices[:-1], length n - 1; a division by a price of 0
\* gives inf or nan (no exception), held here as NaN
Returns(prices) ==
    [i \in 1..(Len(prices) - 1) |->
        IF prices[i] = 0 THEN NaN
        ELSE ((prices[i + 1] - prices[i]) * RetScale) \div prices[i]]

\* sample standard deviation (ddof = 1) of a window of 5 returns, times
\* sqrt(252); NaN when the window holds a value that is not finite
WindowVol(r, i) ==
    LET w  == SubSeq(r, i - 4, i)
        s  == SumSeq(w)
        s2 == SumSeq([k \in 1..5 |-> w[k] * w[k]])
    IN  IF \E k \in 1..5 : w[k] = NaN THEN NaN
        ELSE ISqrt(((5 * s2 - s * s) \div 20) * 252)

\* indicators['volatility']: zeros of length n below 5 prices, otherwise the
\* rolling(5) std of the n - 1 returns (NaN for the first 4 of them)
Volatility(prices) ==
    IF Len(prices) >= 5
    THEN LET r == Returns(prices)
         IN  [i \in 1..Len(r) |-> IF i < 5 THEN NaN ELSE WindowVol(r, i)]
    ELSE [i \in 1..Len(prices) |-> 0]

\* np.mean: NaN as soon as one element is NaN
MeanNaN(s) ==
    IF \E i \in 1..Len(s) : s[i] = NaN THEN NaN ELSE SumSeq(s) \div Len(s)

(***************************************************************************)
(* Indicator Calculator: the other indicators.  rsi is in hundredths of a  *)
(* point, the averages in 1/100 cent.                                      *)
(***************************************************************************)
\* np.diff(prices), length n - 1
Deltas(prices) == [i \in 1..(Len(prices) - 1) |-> prices[i + 1] - prices[i]]

\* pd.Series(x).rolling(window).mean(): NaN until the window is full
RollingMean(x, window, scale) ==
    [i \in 1..Len(x) |->
        IF i < window THEN NaN
        ELSE (SumSeq(SubSeq(x, i - window + 1, i)) * scale) \div window]

\* 100 - 100 / (1 + avg_gain / (avg_loss + 1e-10)) over 14 deltas: 0 without
\* gains, just under 100 without losses
RsiAt(deltas, i) ==
    LET w      == SubSeq(deltas, i - 13, i)
        gains  == SumSeq([k \in 1..14 |-> IF w[k] > 0 THEN w[k] ELSE 0])
        losses == SumSeq([k \in 1..14 |-> IF w[k] < 0 THEN -w[k] ELSE 0])
    IN  IF gains = 0 THEN 0
        ELSE IF losses = 0 THEN 9999
        ELSE MulDiv(gains, 10000, gains + losses)

\* the array of 49.99 instead of 50.0
Rsi_m(prices) ==
    IF Len(prices) >= 14
    THEN LET deltas == Deltas(prices)
         IN  [i \in 1..Len(deltas) |-> IF i < 14 THEN NaN ELSE RsiAt(deltas, i)]
    ELSE [i \in 1..Len(prices) |-> 4999]
Rsi(prices) ==
    IF Len(prices) >= 14
    THEN LET deltas == Deltas(prices)
         IN  [i \in 1..Len(deltas) |-> IF i < 14 THEN NaN ELSE RsiAt(deltas, i)]
    ELSE [i \in 1..Len(prices) |-> 5000]

\* pd.Series(x).ewm(span, adjust=False).mean(): y[0] = x[0],
\* y[t] = (1 - a) * y[t-1] + a * x[t] with a = 2 / (span + 1)
RECURSIVE EwmFrom(_, _, _, _)
EwmFrom(x, span, i, acc) ==
    IF i > Len(x) THEN acc
    ELSE EwmFrom(x, span, i + 1,
             Append(acc, ((span - 1) * LastOf(acc) + 2 * x[i]) \div (span + 1)))

Ewm(x, span) == IF Len(x) = 0 THEN <<>> ELSE EwmFrom(x, span, 2, <<x[1]>>)

Macd(prices) ==
    IF Len(prices) >= 26
    THEN LET x     == [i \in 1..Len(prices) |-> prices[i] * 100]
             ema12 == Ewm(x, 12)
             ema26 == Ewm(x, 26)
             macd_line == [i \in 1..Len(x) |-> ema12[i] - ema26[i]]
         IN  [macd |-> macd_line, macd_signal |-> Ewm(macd_line, 9)]
    ELSE [macd |-> [i \in 1..Len(prices) |-> 0],
          macd_signal |-> [i \in 1..Len(prices) |-> 0]]

MovingAverages(prices) ==
    IF Len(prices) >= 20
    THEN [sma20 |-> RollingMean(prices, 20, 100),
          sma50 |-> RollingMean(prices, Min2(50, Len(prices)), 100)]
    ELSE [sma20 |-> [i \in 1..Len(prices) |-> prices[i] * 100],
          sma50 |-> [i \in 1..Len(prices) |-> prices[i] * 100]]

calculate_technical_indicators(prices) ==
    [rsi         |-> Rsi(prices),
     macd        |-> Macd(prices).macd,
     macd_signal |-> Macd(prices).macd_signal,
     sma20       |-> MovingAverages(prices).sma20,
     sma50       |-> MovingAverages(prices).sma50,
     volatility  |-> Volatility(prices)]

(***************************************************************************)
(* Regime Classifier                                                       *)
(***************************************************************************)
Regimes == {"stable", "bull", "bear", "volatile"}

\* every comparison with NaN is False
GtNaN(x, y) == x # NaN /\ x > y

\* the trend tests placed before the volatility test
detect_market_regime_m(prices, volatility) ==
    IF Len(prices) < 20 THEN "stable"
    ELSE LET recent == LastK(prices, 20)
             rise   == 20 * (LastOf(recent) - recent[1])
             avg_vol == IF Len(volatility) >= 20
                        THEN MeanNaN(LastK(volatility, 20))
                        ELSE 150
         IN  IF rise > recent[1] THEN "bull"
             ELSE IF rise < -recent[1] THEN "bear"
             ELSE IF GtNaN(avg_vol, 250) THEN "volatile"
             ELSE "stable"
detect_market_regime(prices, volatility) ==
    IF Len(prices) < 20 THEN "stable"
    ELSE LET recent == LastK(prices, 20)
             \* trend = (last - first) / first, compared exactly with +-0.05
             rise   == 20 * (LastOf(recent) - recent[1])
             avg_vol == IF Len(volatility) >= 20
                        THEN MeanNaN(LastK(volatility, 20))
                        ELSE 150
         IN  IF GtNaN(avg_vol, 250) THEN "volatile"
             ELSE IF rise > recent[1] THEN "bull"
             ELSE IF rise < -recent[1] THEN "bear"
             ELSE "stable"

(***************************************************************************)
(* Confidence Normalizer                                                   *)
(***************************************************************************)
Micro == 1000000

\* volatile markets penalised instead of boosted
regime_multipliers_m(market_regime) ==
    CASE market_regime = "stable"   -> 125
      [] market_regime = "bull"     -> 120
      [] market_regime = "bear"     -> 115
      [] market_regime = "volatile" -> 90
      [] OTHER                      -> 100
regime_multipliers(market_regime) ==
    CASE market_regime = "stable"   -> 125
      [] market_regime = "bull"     -> 120
      [] market_regime = "bear"     -> 115
      [] market_regime = "volatile" -> 110
      [] OTHER                      -> 100

data_multiplier(data_points) ==
    IF data_points >= 60 THEN 110
    ELSE IF data_points >= 30 THEN 108
    ELSE IF data_points >= 15 THEN 105
    ELSE 100

\* min(0.95, max(0.75, x)) on millionths
ClampConfidence_m(x) == Max2(750000, x)
ClampConfidence(x) == Min2(950000, Max2(750000, x))

\* base_confidence and the result are in millionths
adjust_confidence_by_regime(base_confidence, market_regime, data_points) ==
    LET adjusted1 == MulDiv(base_confidence, regime_multipliers(market_regime), 100)
        adjusted2 == MulDiv(adjusted1, data_multiplier(data_points), 100)
    IN  ClampConfidence(adjusted2)

(***************************************************************************)
(* Agreement                                                               *)
(***************************************************************************)
\* np.std (population, ddof = 0) of a non-empty sequence of integers
PopStd(xs) ==
    LET k    == Len(xs)
        mean == SumSeq(xs) \div k
    IN  ISqrt(SumSeq([i \in 1..k |-> ((xs[i] - mean) * (xs[i] - mean)) \div k]))

FirstDay(m) == IF Len(m.predictions) > 0 THEN m.predictions[1] ELSE 0

\* result in thousandths
calculate_model_agreement_m(model_predictions) ==
    IF Len(model_predictions) < 2 THEN 1000
    ELSE LET first_day_predictions ==
                 [i \in 1..Len(model_predictions) |-> FirstDay(model_predictions[i])]
             k     == Len(first_day_predictions)
             total == SumSeq(first_day_predictions)
         IN  IF total = 0 THEN 500
             ELSE LET std_pred == PopStd(first_day_predictions)
                      cv == (std_pred * 1000 * k) \div Abs(total)
                  IN  Max2(500, 1000 - cv * 5)
\* the deviation taken relative to the first model's prediction
calculate_model_agreement_o(model_predictions) ==
    IF Len(model_predictions) < 2 THEN 1000
    ELSE LET first_day_predictions ==
                 [i \in 1..Len(model_predictions) |-> FirstDay(model_predictions[i])]
         IN  IF first_day_predictions[1] = 0 THEN 500
             ELSE LET std_pred == PopStd(first_day_predictions)
                      cv == (std_pred * 1000) \div Abs(first_day_predictions[1])
                  IN  Max2(500, Min2(950, 1000 - cv * 5))
calculate_model_agreement(model_predictions) ==
    IF Len(model_predictions) < 2 THEN 1000
    ELSE LET first_day_predictions ==
                 [i \in 1..Len(model_predictions) |-> FirstDay(model_predictions[i])]
             k     == Len(first_day_predictions)
             total == SumSeq(first_day_predictions)
         IN  IF total = 0 THEN 500
             ELSE LET std_pred == PopStd(first_day_predictions)
                      cv == (std_pred * 1000 * k) \div Abs(total)
                  IN  Max2(500, Min2(950, 1000 - cv * 5))

(***************************************************************************)
(* Model Adapters.  e is the outcome of the library calls of this run:     *)
(*   e.fail   the adapters whose fitting step raises                       *)
(*   e.drift  slope of the fitted Prophet / ARIMA forecast (cents a day)   *)
(*   e.unc    Prophet's interval width over the mean price (thousandths)   *)
(*   e.mape   in-sample MAPE of the tree regressors, in percent            *)
(*   e.tree   "lo" or "hi": where in the range of the training targets     *)
(*            the tree regressors predict                                  *)
(***************************************************************************)
Models == {"Prophet", "LSTM", "XGBoost", "RandomForest", "ARIMA", "Sentiment"}

ModelPrediction(name, preds, conf, mae, mape) ==
    [model_name |-> name, predictions |-> preds, confidence |-> conf,
     mae |-> mae, mape |-> mape]

\* [last_price] * horizon
FlatLine(prices, horizon) == [i \in 1..horizon |-> LastOf(prices)]

prophet_forecast(prices, horizon, e) ==
    IF "Prophet" \notin e.fail
    THEN LET n    == Len(prices)
             base == Max2(750, Min2(950, 1000 - e.unc * 2))
             base_confidence ==
                 IF n >= 60 THEN Min2(950, (base * 112) \div 100)
                 ELSE IF n >= 30 THEN Min2(950, (base * 108) \div 100)
                 ELSE IF n >= 15 THEN Min2(950, (base * 105) \div 100)
                 ELSE base
         IN  ModelPrediction("Prophet",
                 [i \in 1..horizon |-> LastOf(prices) + i * e.drift],
                 Max2(750, base_confidence), None, None)
    ELSE LET last_price == LastOf(prices)
             back  == prices[Len(prices) - Min2(7, Len(prices)) + 1]
             \* last_price * (1 + trend * i), trend = (last - back) / back
         IN  ModelPrediction("Prophet",
                 [i \in 1..horizon |->
                     last_price + MulDiv(last_price, (last_price - back) * i, back)],
                 700, None, None)

\* double exponential smoothing, level and trend in 1/100 cent
RECURSIVE Smooth(_, _, _, _, _)
Smooth(prices, i, s, t, trends) ==
    IF i > Len(prices) THEN [smooth |-> s, trend |-> t, trends |-> trends]
    ELSE LET s1 == (3 * prices[i] * 100 + 7 * (s + t)) \div 10
             t1 == ((s1 - s) + 9 * t) \div 10
         IN  Smooth(prices, i + 1, s1, t1, Append(trends, t1))

lstm_simple_forecast(prices, horizon, e) ==
    IF "LSTM" \notin e.fail
    THEN LET sm     == Smooth(prices, 2, prices[1] * 100, 0, <<0>>)
             recent == LastK(sm.trends, 10)
             tc     == [i \in 1..Len(recent) |-> recent[i] \div 100]
             absSum == SumSeq([i \in 1..Len(tc) |-> Abs(tc[i])])
             ratio  == IF absSum = 0 THEN 0
                       ELSE (PopStd(tc) * 1000 * Len(tc)) \div absSum
             trend_stability == 1000 - ratio
         IN  ModelPrediction("LSTM",
                 [i \in 1..horizon |-> (sm.smooth + i * sm.trend) \div 100],
                 Max2(700, Min2(920, 700 + ((trend_stability - 500) * 44) \div 100)),
                 None, None)
    ELSE ModelPrediction("LSTM", FlatLine(prices, horizon), 700, None, None)

\* number of (features, target) rows built by the tree adapters: the loop
\* index i (0-based) runs from 5 while i + horizon < len(prices)
TrainRows(n, horizon) == Cardinality({i \in 5..(n - 1) : i + horizon < n})

\* the targets y of those rows: prices[i + horizon - 1] (0-based)
TrainTargets(prices, horizon) ==
    {prices[i + horizon] : i \in {j \in 5..(Len(prices) - 1) : j + horizon < Len(prices)}}

SetMin(S) == CHOOSE x \in S : \A y \in S : x <= y
SetMax(S) == CHOOSE x \in S : \A y \in S : x >= y

\* two training rows taken as enough
TreeCanFit_m(n, horizon) ==
    LET n_samples == IF n > horizon THEN n - horizon ELSE n - 1
    IN  n_samples >= 5 /\ TrainRows(n, horizon) >= 2
\* both tree adapters raise before fitting when n_samples < 5 or len(X) < 3
TreeCanFit(n, horizon) ==
    LET n_samples == IF n > horizon THEN n - horizon ELSE n - 1
    IN  n_samples >= 5 /\ TrainRows(n, horizon) >= 3

tree_forecast(name, prices, horizon, e) ==
    IF name \notin e.fail /\ TreeCanFit(Len(prices), horizon)
    THEN LET y    == TrainTargets(prices, horizon)
             pred == IF e.tree = "lo" THEN SetMin(y) ELSE SetMax(y)
         IN  ModelPrediction(name, [i \in 1..horizon |-> pred],
                 Max2(700, Min2(950, 900 - e.mape * 4)),
                 Some((e.mape * LastOf(prices)) \div 100), Some(e.mape))
    ELSE ModelPrediction(name, FlatLine(prices, horizon), 700, None, None)

\* "ext.dxy or 0"
OrZero(o) == IF IsNone(o) THEN 0 ELSE Val(o)

\* The columns a tree adapter appends to the feature row of the date
\* date_str: none without external features, zeros when no record has that
\* date, otherwise the fields of the record feat_dict keeps for it (the last
\* one), an absent field as 0.  XGBoost reads dxy, btc_price, oil_price and
\* sentiment_score, RandomForest dxy and sentiment_score; the records of
\* this model carry no btc_price and no oil_price.
ExternalColumns(name, external_features, date_str) ==
    LET feats == IF IsNone(external_features) THEN <<>> ELSE Val(external_features)
        hits  == {k \in 1..Len(feats) : feats[k].ds = date_str}
        dxy   == IF hits = {} THEN 0 ELSE OrZero(feats[SetMax(hits)].dxy)
        sent  == IF hits = {} THEN 0 ELSE OrZero(feats[SetMax(hits)].sentiment_score)
    IN  IF Len(feats) = 0 THEN <<>>
        ELSE IF name = "XGBoost" THEN <<dxy, 0, 0, sent>>
        ELSE <<dxy, sent>>

\* the external columns of the rows of X, in the order the loop builds them
ExternalMatrix(name, dates, external_features, horizon) ==
    LET n == Len(dates)
        n_samples == IF n > horizon THEN n - horizon ELSE n - 1
    IN  IF n_samples < 5 THEN <<>>
        ELSE [r \in 1..TrainRows(n, horizon) |->
                 ExternalColumns(name, external_features, dates[r + 5])]

\* number of price lags at the head of a feature row
Lags(name) == IF name = "XGBoost" THEN 5 ELSE 3

\* "indicators[k][i] if i < len(indicators[k]) else default", i counting from 0
IndicatorAt(array, i, default) == IF i < Len(array) THEN array[i + 1] ELSE default

\* The feature row the loop builds at index i (from 0): the price lags
\* prices[i-1], prices[i-2], ... (cents), then rsi (hundredths), macd and
\* sma20 (1/100 cent), volatility (thousandths), then the external columns
FeatureRow(name, prices, dates, external_features, i) ==
    LET ind == calculate_technical_indicators(prices)
    IN  [k \in 1..Lags(name) |-> prices[i - k + 1]]
        \o << IndicatorAt(ind.rsi, i, 5000),
              IndicatorAt(ind.macd, i, 0),
              IndicatorAt(ind.sma20, i, prices[i + 1] * 100),
              IndicatorAt(ind.volatility, i, 150) >>
        \o ExternalColumns(name, external_features, dates[i + 1])

\* X: one row for each index from 5 with index + horizon < len(prices)
FeatureMatrix(name, prices, dates, external_features, horizon) ==
    [r \in 1..TrainRows(Len(prices), horizon) |->
        FeatureRow(name, prices, dates, external_features, r + 4)]

\* the values of xs in ascending order
SortAscending(xs) ==
    LET place(i) == Cardinality({j \in 1..Len(xs) :
                        xs[j] < xs[i] \/ (xs[j] = xs[i] /\ j < i)}) + 1
    IN  [p \in 1..Len(xs) |-> xs[CHOOSE i \in 1..Len(xs) : place(i) = p]]

Median(xs) ==
    LET s == SortAscending(xs)
        k == Len(s)
    IN  IF k % 2 = 1 THEN s[(k + 1) \div 2] ELSE (s[k \div 2] + s[k \div 2 + 1]) \div 2

\* SimpleImputer(strategy='median').fit_transform(X): a NaN becomes the
\* median of the values present in its column; a column with no value is
\* left out
Impute(X) ==
    LET width   == IF Len(X) = 0 THEN 0 ELSE Len(X[1])
        present(c) == SelectSeq([r \in 1..Len(X) |-> X[r][c]], LAMBDA v : v # NaN)
        kept    == SelectSeq([c \in 1..width |-> c], LAMBDA c : Len(present(c)) > 0)
    IN  [r \in 1..Len(X) |->
            [k \in 1..Len(kept) |->
                IF X[r][kept[k]] = NaN THEN Median(present(kept[k]))
                ELSE X[r][kept[k]]]]

\* X[-1] as the forecasting loop starts: XGBoost imputes X, RandomForest
\* does not
LastFeatures(name, prices, dates, external_features, horizon) ==
    LET X == FeatureMatrix(name, prices, dates, external_features, horizon)
    IN  IF name = "XGBoost" THEN LastOf(Impute(X)) ELSE LastOf(X)

\* "Update features for next prediction".  XGBoost:
\*   [pred, lag 1, lag 2, lag 3, lag 4] + last_features[5:]
\* RandomForest:
\*   [pred] + last_features[:-1]
NextFeatures(name, last_features, pred) ==
    IF name = "XGBoost"
    THEN <<pred>> \o SubSeq(last_features, 1, 4)
                  \o SubSeq(last_features, 6, Len(last_features))
    ELSE <<pred>> \o SubSeq(last_features, 1, Len(last_features) - 1)

\* the feature rows of the forecasting loop: the row each prediction is made
\* from, and the row left after the last update
RECURSIVE FeatureSteps(_, _, _, _)
FeatureSteps(name, last_features, predictions, k) ==
    IF k > Len(predictions) THEN <<last_features>>
    ELSE <<last_features>>
         \o FeatureSteps(name, NextFeatures(name, last_features, predictions[k]),
                         predictions, k + 1)

\* the rows a tree adapter forecasts from; none on the fallback path
forecast_features(name, prices, dates, external_features, horizon, e) ==
    IF name \notin e.fail /\ TreeCanFit(Len(prices), horizon)
    THEN FeatureSteps(name,
             LastFeatures(name, prices, dates, external_features, horizon),
             tree_forecast(name, prices, horizon, e).predictions, 1)
    ELSE <<>>

xgboost_forecast(prices, horizon, e) == tree_forecast("XGBoost", prices, horizon, e)

random_forest_forecast(prices, horizon, e) ==
    tree_forecast("RandomForest", prices, horizon, e)

arima_garch_forecast_m(prices, horizon, e) ==
    IF "ARIMA" \notin e.fail /\ Len(prices) >= 10
    THEN ModelPrediction("ARIMA",
             [i \in 1..horizon |-> LastOf(prices) + i * e.drift], 800, None, None)
    ELSE ModelPrediction("ARIMA", FlatLine(prices, horizon), 500, None, None)
arima_garch_forecast(prices, horizon, e) ==
    IF "ARIMA" \notin e.fail /\ Len(prices) >= 10
    THEN ModelPrediction("ARIMA",
             [i \in 1..horizon |-> LastOf(prices) + i * e.drift], 800, None, None)
    ELSE ModelPrediction("ARIMA", FlatLine(prices, horizon), 750, None, None)

\* decay_factor = max(0.5, 1 - (i * 0.1)) in tenths, i counting from 0
decay_factor_m(i) == Max2(5, 9 - i)
decay_factor(i) == Max2(5, 10 - i)

\* an ExternalFeature is [ds, dxy, sentiment_score], the last two optional
\* [f.sentiment_score for f in external_features[-7:]
\*      if f.sentiment_score is not None]
recent_sentiments_m(external_features) ==
    LET recent == IF IsNone(external_features) THEN <<>>
                  ELSE LastK(Val(external_features), 7)
    IN  [i \in 1..Len(recent) |-> Some(OrZero(recent[i].sentiment_score))]
recent_sentiments(external_features) ==
    LET recent == IF IsNone(external_features) THEN <<>>
                  ELSE LastK(Val(external_features), 7)
    IN  SelectSeq([i \in 1..Len(recent) |-> recent[i].sentiment_score],
                  LAMBDA o : ~IsNone(o))

news_sentiment_forecast(prices, external_features, horizon, e) ==
    LET sentiments == recent_sentiments(external_features)
    IN  IF "Sentiment" \in e.fail \/ Len(sentiments) = 0
        THEN ModelPrediction("Sentiment", FlatLine(prices, horizon), 700, None, None)
        ELSE LET avg_sentiment ==
                     SumSeq([i \in 1..Len(sentiments) |->
                                Val(sentiments[i])]) \div Len(sentiments)
                 last_price == LastOf(prices)
             IN  ModelPrediction("Sentiment",
                     [i \in 1..horizon |->
                         last_price
                         + MulDiv(last_price * decay_factor(i - 1),
                                  avg_sentiment * 2, 1000000)],
                     650 + (Abs(avg_sentiment) * 250) \div 1000, None, None)

(***************************************************************************)
(* Weight Allocator.  A weight map is [den, w]: the weight of model m is   *)
(* the fraction w[m] / den.                                                *)
(***************************************************************************)
\* the volatile row short of its sentiment share
regime_weights_m(market_regime) ==
    CASE market_regime = "bull" ->
            [Prophet |-> 25, LSTM |-> 30, XGBoost |-> 25, RandomForest |-> 12,
             ARIMA |-> 5, Sentiment |-> 3]
      [] market_regime = "bear" ->
            [Prophet |-> 20, LSTM |-> 25, XGBoost |-> 30, RandomForest |-> 15,
             ARIMA |-> 8, Sentiment |-> 2]
      [] market_regime = "volatile" ->
            [Prophet |-> 15, LSTM |-> 20, XGBoost |-> 35, RandomForest |-> 20,
             ARIMA |-> 5, Sentiment |-> 0]
      [] OTHER ->
            [Prophet |-> 30, LSTM |-> 20, XGBoost |-> 25, RandomForest |-> 15,
             ARIMA |-> 8, Sentiment |-> 2]
\* the regime priors, in percent
regime_weights(market_regime) ==
    CASE market_regime = "bull" ->
            [Prophet |-> 25, LSTM |-> 30, XGBoost |-> 25, RandomForest |-> 12,
             ARIMA |-> 5, Sentiment |-> 3]
      [] market_regime = "bear" ->
            [Prophet |-> 20, LSTM |-> 25, XGBoost |-> 30, RandomForest |-> 15,
             ARIMA |-> 8, Sentiment |-> 2]
      [] market_regime = "volatile" ->
            [Prophet |-> 15, LSTM |-> 20, XGBoost |-> 35, RandomForest |-> 20,
             ARIMA |-> 5, Sentiment |-> 5]
      [] OTHER ->
            [Prophet |-> 30, LSTM |-> 20, XGBoost |-> 25, RandomForest |-> 15,
             ARIMA |-> 8, Sentiment |-> 2]

\* base_weights.get(model_name, 0.1)
BaseWeight_m(base_weights, model_name) ==
    IF model_name \in DOMAIN base_weights THEN base_weights[model_name] ELSE 0
BaseWeight(base_weights, model_name) ==
    IF model_name \in DOMAIN base_weights THEN base_weights[model_name] ELSE 10

\* base_weight * (0.5 + confidence * 0.5), times (0.7 + 0.3 / (1 + mape / 10))
\* when mape is not None and mape > 0; in units of 1 / AdjUnit
AdjUnit == 200000

\* the error factor left out
confidence_adjusted_m(base_weights, model_pred) ==
    BaseWeight(base_weights, model_pred.model_name)
        * (ConfScale + model_pred.confidence)
confidence_adjusted(base_weights, model_pred) ==
    LET plain == BaseWeight(base_weights, model_pred.model_name)
                    * (ConfScale + model_pred.confidence)
    IN  IF ~IsNone(model_pred.mape) /\ Val(model_pred.mape) > 0
        THEN (plain * (700 + 3000 \div (10 + Val(model_pred.mape)))) \div 1000
        ELSE plain

NamesOf(model_predictions) ==
    {model_predictions[i].model_name : i \in 1..Len(model_predictions)}

\* the entry a dict keeps for a key written several times is the last one
LastWith(model_predictions, name) ==
    model_predictions[CHOOSE i \in 1..Len(model_predictions) :
        /\ model_predictions[i].model_name = name
        /\ \A j \in (i + 1)..Len(model_predictions) :
               model_predictions[j].model_name # name]

EmptyWeights == [den |-> 1, w |-> [m \in {} |-> 0]]

calculate_dynamic_weights(model_predictions, market_regime) ==
    IF Len(model_predictions) = 0 THEN EmptyWeights
    ELSE LET base_weights == regime_weights(market_regime)
             names == NamesOf(model_predictions)
             raw == [m \in names |->
                        confidence_adjusted(base_weights, LastWith(model_predictions, m))]
             total_confidence_weight ==
                 SumSeq([i \in 1..Len(model_predictions) |->
                            confidence_adjusted(base_weights, model_predictions[i])])
         IN  IF total_confidence_weight > 0
             THEN [den |-> total_confidence_weight, w |-> raw]
             ELSE \* equal weights, written under every key of base_weights
                  [den |-> AdjUnit * Len(model_predictions),
                   w |-> [m \in names \cup DOMAIN base_weights |->
                            IF m \in DOMAIN base_weights THEN AdjUnit
                            ELSE raw[m] * Len(model_predictions)]]

(***************************************************************************)
(* Ensemble Combiner                                                       *)
(***************************************************************************)
\* "Ensure all models have weights": writes 1 / N into the map it was given
FillWeights_m(model_predictions, weights) ==
    LET names == NamesOf(model_predictions)
        k == Len(model_predictions)
    IN  IF weights.den % k # 0 THEN weights
        ELSE [den |-> weights.den,
              w |-> [m \in names \cup DOMAIN weights.w |->
                        (IF m \in DOMAIN weights.w THEN weights.w[m] ELSE 0)
                        + (IF m \in names THEN weights.den \div k ELSE 0)]]
FillWeights(model_predictions, weights) ==
    LET names == NamesOf(model_predictions)
        k == Len(model_predictions)
    IN  IF names \subseteq DOMAIN weights.w THEN weights
        ELSE [den |-> weights.den * k,
              w |-> [m \in names \cup DOMAIN weights.w |->
                        IF m \in DOMAIN weights.w THEN weights.w[m] * k
                        ELSE weights.den]]

\* floor(sum(terms) / d) for d # 0, term by term
SumDiv(terms, d) ==
    LET dd == Abs(d)
        ts == [i \in 1..Len(terms) |-> IF d < 0 THEN -terms[i] ELSE terms[i]]
    IN  SumSeq([i \in 1..Len(ts) |-> ts[i] \div dd])
        + SumSeq([i \in 1..Len(ts) |-> ts[i] % dd]) \div dd

\* the division by total_weight left out
AppliedWeights_m(model_predictions, filled) ==
    [den |-> filled.den, w |-> filled.w]
\* the weights the combiner applies, after filling and the zero-total fallback
AppliedWeights(model_predictions, filled) ==
    LET total_weight ==
            SumSeq([i \in 1..Len(model_predictions) |->
                       filled.w[model_predictions[i].model_name]])
    IN  IF total_weight = 0
        THEN [den |-> Len(model_predictions),
              w |-> [m \in NamesOf(model_predictions) |-> 1]]
        ELSE [den |-> total_weight, w |-> filled.w]

\* ensemble_pred += np.array(predictions) * weight: numpy adds a vector of
\* the length of the first model's, stretches a vector of length 1 and
\* raises ValueError for any other length
BroadcastOk(model_predictions) ==
    \A k \in 1..Len(model_predictions) :
        Len(model_predictions[k].predictions)
            \in {Len(model_predictions[1].predictions), 1}

PredAt(model_pred, i) ==
    IF Len(model_pred.predictions) = 1 THEN model_pred.predictions[1]
    ELSE model_pred.predictions[i]

\* the override ignored: the dynamic weights used whatever was passed
create_ensemble_prediction_m(model_predictions, weights, market_regime) ==
    IF Len(model_predictions) = 0
    THEN [ok |-> FALSE, error |-> "No model predictions provided",
          weights_after |-> weights]
    ELSE LET used == AppliedWeights(model_predictions,
                         calculate_dynamic_weights(model_predictions, market_regime))
         IN  IF ~BroadcastOk(model_predictions)
             THEN [ok |-> FALSE, error |-> "operands could not be broadcast together",
                   weights_after |-> weights]
             ELSE [ok |-> TRUE,
                   value |-> [i \in 1..Len(model_predictions[1].predictions) |->
                       SumDiv([k \in 1..Len(model_predictions) |->
                                  PredAt(model_predictions[k], i)
                                    * used.w[model_predictions[k].model_name]],
                              used.den)],
                   applied |-> used,
                   weights_after |-> weights]
\* weights is optional; the result carries the prediction, the weights
\* applied and the map object handed in as the call leaves it
create_ensemble_prediction(model_predictions, weights, market_regime) ==
    IF Len(model_predictions) = 0
    THEN [ok |-> FALSE, error |-> "No model predictions provided",
          weights_after |-> weights]
    ELSE LET given  == IF IsNone(weights)
                       THEN calculate_dynamic_weights(model_predictions, market_regime)
                       ELSE Val(weights)
             filled == FillWeights(model_predictions, given)
             used   == AppliedWeights(model_predictions, filled)
             horizon == Len(model_predictions[1].predictions)
             after  == IF IsNone(weights) THEN None ELSE Some(filled)
         IN  IF ~BroadcastOk(model_predictions)
             THEN [ok |-> FALSE, error |-> "operands could not be broadcast together",
                   weights_after |-> after]
             ELSE [ok |-> TRUE,
                   value |-> [i \in 1..horizon |->
                       SumDiv([k \in 1..Len(model_predictions) |->
                                  PredAt(model_predictions[k], i)
                                    * used.w[model_predictions[k].model_name]],
                              used.den)],
                   applied |-> used,
                   weights_after |-> after]

(***************************************************************************)
(* Feature Attributor                                                      *)
(***************************************************************************)
IndicatorKeys == {"rsi", "macd", "macd_signal", "sma20", "sma50", "volatility"}

\* contribution_percent is in 1 / PctScale percent
PctScale == 100000

\* any(f.dxy is not None for f in external_features)
HasDxy_m(feats) == Len(feats) > 0
HasDxy(feats) == \E i \in 1..Len(feats) : ~IsNone(feats[i].dxy)

\* any(f.sentiment_score is not None for f in external_features)
HasSentiment(feats) == \E i \in 1..Len(feats) : ~IsNone(feats[i].sentiment_score)

calculate_feature_importance(prices, external_features, indicators) ==
    LET feats == IF IsNone(external_features) THEN <<>> ELSE Val(external_features)
        has_dxy == HasDxy(feats)
        has_sentiment == HasSentiment(feats)
        importance_scores ==
            (IF Len(prices) > 1
                THEN <<[feature_name |-> "Price History", nominal |-> 35]>> ELSE <<>>)
            \o (IF "rsi" \in indicators
                THEN <<[feature_name |-> "RSI", nominal |-> 15]>> ELSE <<>>)
            \o (IF "macd" \in indicators
                THEN <<[feature_name |-> "MACD", nominal |-> 12]>> ELSE <<>>)
            \o (IF "volatility" \in indicators
                THEN <<[feature_name |-> "Volatility", nominal |-> 10]>> ELSE <<>>)
            \o (IF has_dxy
                THEN <<[feature_name |-> "DXY (USD Index)", nominal |-> 15]>> ELSE <<>>)
            \o (IF has_sentiment
                THEN <<[feature_name |-> "News Sentiment", nominal |-> 8]>> ELSE <<>>)
        total == SumSeq([i \in 1..Len(importance_scores) |-> importance_scores[i].nominal])
    IN  [i \in 1..Len(importance_scores) |->
            [feature_name |-> importance_scores[i].feature_name,
             contribution_percent |->
                IF total > 0
                THEN (importance_scores[i].nominal * 100 * PctScale) \div total
                ELSE importance_scores[i].nominal * PctScale]]

(***************************************************************************)
(* Orchestration and response assembly                                     *)
(***************************************************************************)
HTTPException(status_code, detail) == [status |-> status_code, detail |-> detail]

agreement_boost(model_agreement) ==
    IF model_agreement >= 800 THEN 120
    ELSE IF model_agreement >= 700 THEN 115
    ELSE IF model_agreement >= 600 THEN 110
    ELSE 105

\* overall confidence of the ensemble branch, in millionths
EnsembleConfidence(model_predictions, market_regime, data_points) ==
    LET k == Len(model_predictions)
        mean_conf == (SumSeq([i \in 1..k |-> model_predictions[i].confidence])
                        * (Micro \div ConfScale)) \div k
        avg_confidence == IF mean_conf < 650000
                          THEN 650000 + (mean_conf - 600000) \div 2
                          ELSE mean_conf
        model_agreement == calculate_model_agreement(model_predictions)
        base_ensemble_confidence == Max2(650000, avg_confidence)
        boosted == MulDiv(MulDiv(base_ensemble_confidence, 115, 100),
                          agreement_boost(model_agreement), 100)
    IN  ClampConfidence(adjust_confidence_by_regime(boosted, market_regime, data_points))

\* the first point dated on the last row's own day
FormatForecast_m(last_date, ensemble_pred) ==
    [i \in 1..Len(ensemble_pred) |->
        [ds         |-> last_date + i - 1,
         yhat       |-> ensemble_pred[i],
         yhat_lower |-> RoundTo(ensemble_pred[i] * 97, 100),
         yhat_upper |-> RoundTo(ensemble_pred[i] * 103, 100)]]
\* one forecast point per element of ensemble_pred
FormatForecast(last_date, ensemble_pred) ==
    [i \in 1..Len(ensemble_pred) |->
        [ds         |-> last_date + i,
         yhat       |-> ensemble_pred[i],
         yhat_lower |-> RoundTo(ensemble_pred[i] * 97, 100),
         yhat_upper |-> RoundTo(ensemble_pred[i] * 103, 100)]]

NoTrace == [ran |-> {}, weights |-> None]

\* "if request.use_ensemble and request.include_feature_importance"
WantsFeatureImportance_m(req) == req.include_feature_importance
WantsFeatureImportance(req) == req.use_ensemble /\ req.include_feature_importance

\* [row.price for row in request.rows]
PricesOf(rows) == [i \in 1..Len(rows) |-> rows[i].price]

\* The body of generate_enhanced_forecast for the request req whose
\* model_weights dict currently holds mw.  Every exception raised inside the
\* try block, the HTTPException(400) included, reaches the handler of
\* "except Exception" and leaves as HTTPException(500).
generate_enhanced_forecast(req, mw, e) ==
    IF Len(req.rows) < 5
    THEN [response |-> HTTPException(500,
              "Forecast generation failed: At least 5 data points required for enhanced forecast"),
          model_weights |-> mw,
          trace |-> NoTrace]
    ELSE
    LET prices  == PricesOf(req.rows)
        dates   == [i \in 1..Len(req.rows) |-> req.rows[i].ds]
        horizon == req.horizon_days
        volatility    == Volatility(prices)
        market_regime == detect_market_regime(prices, volatility)
        prophet_pred  == prophet_forecast(prices, horizon, e)
        model_predictions ==
            IF req.use_ensemble
            THEN << prophet_pred,
                    lstm_simple_forecast(prices, horizon, e),
                    xgboost_forecast(prices, horizon, e),
                    random_forest_forecast(prices, horizon, e),
                    arima_garch_forecast(prices, horizon, e),
                    news_sentiment_forecast(prices, req.external_features, horizon, e) >>
            ELSE << prophet_pred >>
        combined == create_ensemble_prediction(model_predictions, mw, market_regime)
        ensemble_pred == IF req.use_ensemble THEN combined.value
                         ELSE prophet_pred.predictions
        overall_confidence ==
            IF req.use_ensemble
            THEN EnsembleConfidence(model_predictions, market_regime, Len(prices))
            ELSE adjust_confidence_by_regime(
                     prophet_pred.confidence * (Micro \div ConfScale),
                     market_regime, Len(prices))
        feature_importance ==
            IF WantsFeatureImportance(req)
            THEN calculate_feature_importance(prices, req.external_features, IndicatorKeys)
            ELSE <<>>
    IN  IF req.use_ensemble /\ ~combined.ok
        THEN [response |-> HTTPException(500,
                  "Forecast generation failed: operands could not be broadcast together"),
              model_weights |-> combined.weights_after,
              trace |-> [ran |-> {"indicators", "regime"} \cup NamesOf(model_predictions),
                         weights |-> None]]
        ELSE
        [response |->
            [status |-> 200,
             forecast |-> FormatForecast(LastOf(dates), ensemble_pred),
             ensemble_prediction |-> ensemble_pred,
             individual_models |-> model_predictions,
             feature_importance |->
                IF Len(feature_importance) > 0 THEN Some(feature_importance) ELSE None,
             market_regime |-> market_regime,
             overall_confidence |-> RoundTo(overall_confidence, 1000)],
         model_weights |-> IF req.use_ensemble THEN combined.weights_after ELSE mw,
         trace |->
            [ran |-> {"indicators", "regime"}
                     \cup NamesOf(model_predictions)
                     \cup (IF req.use_ensemble THEN {"combine"} ELSE {})
                     \cup (IF WantsFeatureImportance(req)
                           THEN {"feature_importance"} ELSE {}),
             weights |-> IF req.use_ensemble THEN Some(combined.applied) ELSE None]]

(***************************************************************************)
(* The request model and the endpoint.  The use_ensemble value of a JSON   *)
(* body is a record: kind "bool" (b the boolean), "str" (s the string, a   *)
(* sequence of characters), "int" (n the number), "null", or "absent" when *)
(* the body has no such key.                                               *)
(***************************************************************************)
Absent == [kind |-> "absent"]
Null == [kind |-> "null"]
JsonBool(b) == [kind |-> "bool", b |-> b]
JsonStr(s) == [kind |-> "str", s |-> s]
JsonInt(n) == [kind |-> "int", n |-> n]

\* str.lower(), a character at a time
LowerChar(c) ==
    CASE c = "A" -> "a" [] c = "E" -> "e" [] c = "F" -> "f" [] c = "L" -> "l"
      [] c = "N" -> "n" [] c = "O" -> "o" [] c = "R" -> "r" [] c = "S" -> "s"
      [] c = "T" -> "t" [] c = "U" -> "u" [] c = "Y" -> "y" [] OTHER -> c
lower(s) == [i \in 1..Len(s) |-> LowerChar(s[i])]

\* the strings the request model reads as booleans, once lowered
BOOL_TRUE == {<<"1">>, <<"o", "n">>, <<"t">>, <<"t", "r", "u", "e">>,
              <<"y">>, <<"y", "e", "s">>}
BOOL_FALSE == {<<"0">>, <<"o", "f", "f">>, <<"f">>, <<"f", "a", "l", "s", "e">>,
               <<"n">>, <<"n", "o">>}

\* the field "use_ensemble: bool = True" of EnhancedForecastRequest: the
\* default when the key is absent, otherwise the boolean the value is read
\* as, or a validation error; null is not a boolean
ValidateFlag(raw) ==
    CASE raw.kind = "absent" -> [ok |-> TRUE, value |-> TRUE]
      [] raw.kind = "bool"   -> [ok |-> TRUE, value |-> raw.b]
      [] raw.kind = "int" /\ raw.n \in {0, 1} -> [ok |-> TRUE, value |-> raw.n = 1]
      [] raw.kind = "str" /\ lower(raw.s) \in BOOL_TRUE  -> [ok |-> TRUE, value |-> TRUE]
      [] raw.kind = "str" /\ lower(raw.s) \in BOOL_FALSE -> [ok |-> TRUE, value |-> FALSE]
      [] OTHER -> [ok |-> FALSE]

\* the handler's reading of request.use_ensemble
use_ensemble_flag(field) ==
    IF field.kind = "str" THEN lower(field.s) \in {<<"t", "r", "u", "e">>, <<"1">>,
                                                    <<"y", "e", "s">>}
    ELSE IF field.kind = "null" THEN TRUE
    ELSE IF field.kind = "int" THEN field.n # 0
    ELSE field.b

\* POST /forecast/enhanced with a body whose use_ensemble is raw: the body
\* is validated against the request model, then handed to
\* generate_enhanced_forecast, whose HTTPException passes through
enhanced_forecast_endpoint(rows, horizon, raw, e) ==
    LET parsed == ValidateFlag(raw)
    IN  IF ~parsed.ok
        THEN HTTPException(422, "Input should be a valid boolean")
        ELSE generate_enhanced_forecast(
                 [rows |-> rows, external_features |-> None, horizon_days |-> horizon,
                  use_ensemble |-> use_ensemble_flag(JsonBool(parsed.value)),
                  model_weights |-> None, include_feature_importance |-> TRUE],
                 None, e).response

(***************************************************************************)
(* DataUpdater.merge_datasets (src/scripts/update_latest.py).  A data      *)
(* frame is the sequence of its rows; a row is [ds, region, rate]; a date  *)
(* string is <<day, form>>, the day it names and how it is written         *)
(* ("iso" is YYYY-MM-DD).                                                  *)
(***************************************************************************)
\* pd.to_datetime on a date string, and .dt.strftime('%Y-%m-%d') back
to_datetime(ds) == ds[1]
strftime(day) == <<day, "iso">>

\* sort_values('ds'): rows by ascending day, rows of one day in the order
\* they had
sort_values(df) ==
    LET place(i) ==
            Cardinality({j \in 1..Len(df) :
                \/ to_datetime(df[j].ds) < to_datetime(df[i].ds)
                \/ (to_datetime(df[j].ds) = to_datetime(df[i].ds) /\ j < i)}) + 1
    IN  [p \in 1..Len(df) |-> df[CHOOSE i \in 1..Len(df) : place(i) = p]]

\* key_columns is accepted and never read: the overlap is decided on ds
merge_datasets(existing_df, new_df, key_columns) ==
    IF Len(existing_df) = 0 THEN new_df
    ELSE LET new_days == {to_datetime(new_df[i].ds) : i \in 1..Len(new_df)}
             kept     == SelectSeq(existing_df,
                                   LAMBDA r : to_datetime(r.ds) \notin new_days)
             merged_df == sort_values(kept \o new_df)
         IN  [i \in 1..Len(merged_df) |->
                 [merged_df[i] EXCEPT !.ds = strftime(to_datetime(@))]]

(***************************************************************************)
(* The requests and library outcomes explored                              *)
(***************************************************************************)
MaxHorizon == 5
MaxRuns == 2

Row(d, p) == [ds |-> d, price |-> p]

\* price series, in cents, one row a day
Flat(n)  == [i \in 1..n |-> Row(i, 10000)]
Up(n)    == [i \in 1..n |-> Row(i, 10000 + 100 * (i - 1))]
Down(n)  == [i \in 1..n |-> Row(i, 10000 - 100 * (i - 1))]
Crash(n) == [i \in 1..n |-> Row(i, 2000 * (n - i + 1))]

\* alternating +10% / -10% swings
RECURSIVE AltPrice(_)
AltPrice(i) == IF i = 1 THEN 10000
               ELSE IF i % 2 = 0 THEN (AltPrice(i - 1) * 11) \div 10
               ELSE (AltPrice(i - 1) * 9) \div 10
Alt(n) == [i \in 1..n |-> Row(i, AltPrice(i))]

SeriesSet ==
    {Flat(4), Flat(5), Flat(15), Flat(30), Up(12), Up(60), Down(25),
     Alt(20), Alt(21), Alt(25), Crash(5), Crash(10)}

Feature(d, dxy, sentiment) == [ds |-> d, dxy |-> dxy, sentiment_score |-> sentiment]

FeatureSets ==
    {None,
     Some(<<Feature(1, None, None)>>),
     Some(<<Feature(1, Some(10300), None), Feature(2, None, None)>>),
     Some(<<Feature(1, None, Some(1000)), Feature(2, None, Some(1000))>>),
     Some(<<Feature(1, Some(10300), Some(-500)), Feature(2, None, Some(0))>>)}

\* explicit weight overrides, in sixtieths
Override(f) == Some([den |-> 60, w |-> f])

Overrides ==
    {None,
     Override([Prophet |-> 60]),
     Override([Prophet |-> 30, LSTM |-> 30, XGBoost |-> 60, RandomForest |-> 60,
               ARIMA |-> 30, Sentiment |-> 30]),
     Override([Prophet |-> 0, LSTM |-> 0, XGBoost |-> 0, RandomForest |-> 0,
               ARIMA |-> 0, Sentiment |-> 0])}

Request(rows, horizon, ens, feats, weights, fi) ==
    [rows |-> rows, external_features |-> feats, horizon_days |-> horizon,
     use_ensemble |-> ens, model_weights |-> weights,
     include_feature_importance |-> fi]

Horizons == {0, 1, 3, MaxHorizon}

\* n rising prices sent latest day first, every other day missing: the last
\* row of the list carries the earliest date
Backwards(n) == [i \in 1..n |-> Row(2 * (n - i) + 1, 10000 + 100 * (i - 1))]

Requests ==
    {Request(s, h, ens, None, None, TRUE) :
        s \in SeriesSet, h \in Horizons, ens \in BOOLEAN}
    \cup
    {Request(Backwards(12), h, ens, None, None, TRUE) : h \in {1, 3}, ens \in BOOLEAN}
    \cup
    {Request(s, 3, TRUE, f, w, fi) :
        s \in {Flat(30)}, f \in FeatureSets, w \in Overrides, fi \in BOOLEAN}

Outcome(fail, drift, unc, mape, tree) ==
    [fail |-> fail, drift |-> drift, unc |-> unc, mape |-> mape, tree |-> tree]

\* fitted outcomes, no adapter failing
FittedEnvs ==
    {Outcome({}, 200, 10, 5, "hi"),
     Outcome({}, -300, 10, 5, "lo"),
     Outcome({}, 200, 150, 60, "lo"),
     Outcome({}, -300, 150, 60, "hi"),
     Outcome({}, 0, 10, 0, "hi")}

\* every subset of the adapters failing
FailingEnvs == {Outcome(fail, 200, 10, 5, "hi") : fail \in SUBSET Models}

\* sentiment scores that average 0: the Sentiment adapter's lowest confidence
MixedNews == Some(<<Feature(24, None, Some(500)), Feature(25, None, Some(-500))>>)

FailRequests ==
    {Request(s, 3, TRUE, None, None, TRUE) : s \in {Flat(30), Crash(5)}}
    \cup {Request(Crash(5), h, FALSE, None, None, TRUE) : h \in {0, 3}}
    \cup {Request(Alt(25), 3, TRUE, MixedNews, None, TRUE)}

Cases == (Requests \X FittedEnvs) \cup (FailRequests \X FailingEnvs)

NoResponse == [status |-> 0]
NoPrev == [response |-> NoResponse, weights |-> None]
NoCall == [fn |-> "none"]
NoResult == [done |-> FALSE]

(***************************************************************************)
(* The engine serving a request                                            *)
(***************************************************************************)
Init ==
    /\ \E c \in Cases : request = c[1] /\ env = c[2]
    /\ model_weights = request.model_weights
    /\ response = NoResponse
    /\ prev = NoPrev
    /\ runs = 0
    /\ trace = NoTrace
    /\ call = NoCall
    /\ result = NoResult

\* The endpoint runs generate_enhanced_forecast on the request.  A caller
\* repeating the request sends either the same object again (reuse) or a
\* fresh copy of it.
Generate ==
    /\ runs < MaxRuns
    /\ \E reuse \in BOOLEAN :
         LET mw  == IF reuse THEN model_weights ELSE request.model_weights
             out == generate_enhanced_forecast(request, mw, env)
         IN  /\ response' = out.response
             /\ model_weights' = out.model_weights
             /\ trace' = out.trace
    /\ prev' = [response |-> response, weights |-> trace.weights]
    /\ runs' = runs + 1
    /\ UNCHANGED <<request, env, call, result>>

Next == Generate

Spec == Init /\ [][Next]_vars

(***************************************************************************)
(* Direct calls of the engine's pure functions                             *)
(***************************************************************************)
MaxListLen == 3

\* what an adapter may hand over: confidence, optional MAPE, predictions
Profiles ==
    {[confidence |-> 700,  mape |-> None,     predictions |-> <<10000, 10000>>],
     [confidence |-> 950,  mape |-> Some(5),  predictions |-> <<10100, 10300>>],
     [confidence |-> 1000, mape |-> Some(0),  predictions |-> <<11000, 9000>>],
     [confidence |-> 0,    mape |-> Some(40), predictions |-> <<-10000, 5000>>],
     [confidence |-> 650,  mape |-> None,     predictions |-> <<0, 10000>>],
     [confidence |-> 800,  mape |-> None,     predictions |-> <<>>]}

WithProfile(name, p) ==
    ModelPrediction(name, p.predictions, p.confidence, None, p.mape)

AdapterOrder == <<"Prophet", "LSTM", "XGBoost", "RandomForest", "ARIMA", "Sentiment">>

\* names tried in short lists; "Naive" is a model the prior table does not know
ListNames == <<"Prophet", "XGBoost", "Sentiment", "Naive">>

\* lists of up to MaxListLen predictions with distinct names, in ListNames order
RECURSIVE ListsFrom(_, _)
ListsFrom(i, room) ==
    IF i > Len(ListNames) \/ room = 0 THEN {<<>>}
    ELSE ListsFrom(i + 1, room)
         \cup {<<WithProfile(ListNames[i], p)>> \o rest :
                  p \in Profiles, rest \in ListsFrom(i + 1, room - 1)}

\* the six adapters, one of them with its own profile
SixLists ==
    {[i \in 1..6 |-> WithProfile(AdapterOrder[i], IF i = k THEN p ELSE q)] :
        k \in 1..6, p \in Profiles, q \in Profiles}

\* the orders in which a list of n predictions may arrive
Perms(n) == {q \in [1..n -> 1..n] : \A i, j \in 1..n : i # j => q[i] # q[j]}
Permute(l, q) == [i \in 1..Len(l) |-> l[q[i]]]

\* three and six predictions with vectors of one length, in every order
OrderBase ==
    {l \in ListsFrom(1, 3) :
        /\ NamesOf(l) = {"Prophet", "XGBoost", "Naive"}
        /\ \A k \in 1..3 : Len(l[k].predictions) = 2}
    \cup {l \in SixLists : l[1].confidence = 950 /\ l[2].confidence = 0}

OrderLists == UNION {{Permute(l, q) : q \in Perms(Len(l))} : l \in OrderBase}

PredictionLists == ListsFrom(1, MaxListLen) \cup SixLists

RegimeLabels == Regimes \cup {"sideways"}

WeightCalls ==
    {[fn |-> "calculate_dynamic_weights", model_predictions |-> l, market_regime |-> r] :
        l \in PredictionLists \ {<<>>}, r \in RegimeLabels}
    \cup
    {[fn |-> "calculate_dynamic_weights", model_predictions |-> l,
      market_regime |-> "bear"] : l \in OrderLists}

\* predictions whose adjusted weights are all zero: confidence -1.0, which
\* ModelPrediction accepts (confidence: float) and no adapter produces
Void(name) == ModelPrediction(name, <<10000, 10000>>, -1000, None, None)

ZeroTotalLists ==
    {<<Void("Prophet")>>, <<Void("Naive")>>, <<Void("Prophet"), Void("XGBoost")>>,
     <<Void("XGBoost"), Void("Naive")>>,
     [i \in 1..6 |-> Void(AdapterOrder[i])]}

ZeroTotalCalls ==
    {[fn |-> "calculate_dynamic_weights", model_predictions |-> l, market_regime |-> r] :
        l \in ZeroTotalLists, r \in {"stable", "volatile"}}

AgreementCalls ==
    {[fn |-> "calculate_model_agreement", model_predictions |-> l] :
        l \in PredictionLists \cup OrderLists}

ImportanceCalls ==
    {[fn |-> "calculate_feature_importance", prices |-> ps,
      external_features |-> f, indicators |-> ks] :
        ps \in {<<10000>>, <<10000, 10100>>, <<10000, 10100, 9900, 10000, 10050>>},
        f \in FeatureSets \cup {Some(<<>>)},
        ks \in SUBSET IndicatorKeys}

\* price arrays and volatility arrays handed to detect_market_regime
\* n prices of 100.00, the last one replaced
Jump(n, last) == [i \in 1..n |-> Row(i, IF i = n THEN last ELSE 10000)]

RegimeSeries ==
    SeriesSet \cup
    {Flat(19), Up(19), Alt(19), Flat(20), Up(20), Down(20), Alt(40),
     Jump(19, 20000), Jump(20, 10500), Jump(20, 10501), Jump(20, 9500),
     Jump(20, 9499), Jump(25, 12000), Jump(25, 8000)}

ConstVol(k, v) == [i \in 1..k |-> v]
LeadNaN(k, lead, v) == [i \in 1..k |-> IF i <= lead THEN NaN ELSE v]

VolArrays ==
    {ConstVol(k, v) : k \in {0, 19, 20, 25}, v \in {100, 250, 251, 300}}
    \cup {LeadNaN(20, 1, 300), LeadNaN(23, 4, 300), LeadNaN(24, 4, 300),
          LeadNaN(24, 4, 100)}

RegimeCalls ==
    UNION {{[fn |-> "detect_market_regime", prices |-> PricesOf(s), volatility |-> v] :
               v \in VolArrays \cup {Volatility(PricesOf(s))}} :
           s \in RegimeSeries}

\* lists whose prediction vectors differ in length
RaggedLists ==
    {<<ModelPrediction("Prophet", <<10000, 10200>>, 800, None, None),
       ModelPrediction("XGBoost", <<9000>>, 800, None, None)>>,
     <<ModelPrediction("Prophet", <<10000>>, 800, None, None),
       ModelPrediction("XGBoost", <<9000, 9100>>, 800, None, None)>>,
     <<ModelPrediction("Prophet", <<10000, 10200>>, 800, None, None),
       ModelPrediction("XGBoost", <<9000, 9100, 9200>>, 800, None, None)>>}

\* overrides over the names of ListNames, in sixtieths; some leave models
\* out, some carry a negative weight
CombineOverrides ==
    Overrides \cup
    {Override([Prophet |-> 30, XGBoost |-> 20, Sentiment |-> 10, Naive |-> 0]),
     Override([Prophet |-> 0, XGBoost |-> 0, Sentiment |-> 0, Naive |-> 0]),
     Override([XGBoost |-> 45, LSTM |-> 15]),
     Override([Prophet |-> 120, XGBoost |-> -60]),
     Override([Prophet |-> 60, XGBoost |-> -60, Sentiment |-> 0, Naive |-> 0])}

CombineCall(l, w, r) ==
    [fn |-> "create_ensemble_prediction", model_predictions |-> l,
     weights |-> w, market_regime |-> r]

CombineCalls ==
    {CombineCall(l, None, r) :
        l \in PredictionLists \cup RaggedLists, r \in {"stable", "volatile"}}
    \cup
    {CombineCall(l, w, "volatile") :
        l \in ListsFrom(1, MaxListLen - 1) \cup SixLists \cup RaggedLists,
        w \in CombineOverrides \ {None}}
    \cup
    {CombineCall(l, w, "volatile") :
        l \in OrderLists, w \in {None, Override([XGBoost |-> 45, LSTM |-> 15])}}

MaxSentimentDays == 8

\* k records without a sentiment score after one that carries the score v
ScoreThenSilent(v, k) ==
    [i \in 1..(k + 1) |-> Feature(i, None, IF i = 1 THEN Some(v) ELSE None)]

SentimentFeatureSets ==
    FeatureSets \cup
    {Some(<<>>),
     Some(<<Feature(1, None, Some(250))>>),
     Some(<<Feature(1, None, Some(200))>>),
     Some(<<Feature(1, None, None), Feature(2, Some(10300), Some(-200))>>),
     Some(<<Feature(1, None, Some(-1000)), Feature(2, Some(10300), None),
            Feature(3, None, Some(-1000))>>),
     Some(ScoreThenSilent(1000, 6)),
     Some(ScoreThenSilent(1000, 7)),
     Some(ScoreThenSilent(-500, 8))}

SentimentCalls ==
    {[fn |-> "news_sentiment_forecast", prices |-> ps, external_features |-> f,
      horizon |-> h] :
        ps \in {PricesOf(Flat(5)), PricesOf(Up(12)), PricesOf(Crash(5))},
        f \in SentimentFeatureSets,
        h \in 0..MaxSentimentDays}

\* records dated on the days the tree adapters train on (day 6 onwards)
TreeFeatureSets ==
    {None, Some(<<>>),
     Some(<<Feature(1, Some(10300), Some(500))>>),
     Some(<<Feature(6, Some(10300), None), Feature(7, None, Some(-500)),
            Feature(8, None, None)>>),
     Some(<<Feature(6, Some(10300), Some(500)), Feature(6, None, Some(250))>>)}

TreeCalls ==
    {[fn |-> name, rows |-> s, external_features |-> f, horizon |-> h, outcome |-> e] :
        name \in {"xgboost_forecast", "random_forest_forecast"},
        s \in {Flat(5), Up(10), Up(12), Flat(15)},
        f \in TreeFeatureSets,
        h \in 0..3,
        e \in {Outcome({}, 200, 10, 5, "hi"), Outcome({}, 0, 10, 0, "lo")}}

MaxFrameLen == 2

DataRow(day, form, region, rate) ==
    [ds |-> <<day, form>>, region |-> region, rate |-> rate]

\* rows on file (rate 500) and freshly generated rows (rate 502)
ExistingRows ==
    {DataRow(1, "iso", "SANA", 500), DataRow(2, "iso", "SANA", 500),
     DataRow(2, "iso", "ADEN", 500)}
NewRows ==
    {DataRow(2, "iso", "SANA", 502), DataRow(3, "iso", "SANA", 502),
     DataRow(2, "iso", "ADEN", 502), DataRow(2, "slash", "SANA", 502)}

RECURSIVE FramesOf(_, _)
FramesOf(rows, len) ==
    IF len = 0 THEN {<<>>}
    ELSE FramesOf(rows, len - 1)
         \cup {Append(f, r) : f \in FramesOf(rows, len - 1), r \in rows}

MergeCalls ==
    {[fn |-> "merge_datasets", existing_df |-> e, new_df |-> n, key_columns |-> k] :
        e \in FramesOf(ExistingRows, MaxFrameLen),
        n \in FramesOf(NewRows, MaxFrameLen),
        k \in {<<"ds">>, <<"ds", "region">>}}

\* price arrays on both sides of the thresholds 5, 14, 20, 26 and 50
IndicatorLens == {1, 2, 4, 5, 6, 13, 14, 15, 19, 20, 21, 25, 26, 27, 49, 51}

\* n prices of 100.00 with a price of 0 before the last one
ZeroDip(n) == [i \in 1..n |-> Row(i, IF i = n - 1 THEN 0 ELSE 10000)]

IndicatorCalls ==
    {[fn |-> "calculate_technical_indicators", prices |-> PricesOf(s)] :
        s \in UNION {{Flat(n), Up(n), Alt(n), ZeroDip(n)} : n \in IndicatorLens}
               \cup {<<>>}}

\* values a client may send as use_ensemble
FlagValues ==
    {Absent, Null, JsonBool(TRUE), JsonBool(FALSE), JsonInt(0), JsonInt(1), JsonInt(2),
     JsonStr(<<"t", "r", "u", "e">>), JsonStr(<<"T", "r", "u", "e">>),
     JsonStr(<<"T", "R", "U", "E">>), JsonStr(<<"f", "a", "l", "s", "e">>),
     JsonStr(<<"F", "a", "l", "s", "e">>), JsonStr(<<"F", "A", "L", "S", "E">>),
     JsonStr(<<"1">>), JsonStr(<<"0">>), JsonStr(<<"y", "e", "s">>),
     JsonStr(<<"Y", "E", "S">>), JsonStr(<<"Y", "e", "s">>), JsonStr(<<"n", "o">>),
     JsonStr(<<"o", "n">>), JsonStr(<<"m", "a", "y", "b", "e">>), JsonStr(<<>>)}

EndpointCalls ==
    {[fn |-> "enhanced_forecast_endpoint", rows |-> s, horizon |-> h,
      use_ensemble |-> raw, outcome |-> e] :
        s \in {Flat(4), Flat(5), Up(12)}, h \in {1, 3}, raw \in FlagValues,
        e \in {Outcome({}, 200, 10, 5, "hi"), Outcome(Models, 200, 10, 5, "hi")}}

Calls ==
    WeightCalls \cup AgreementCalls \cup ImportanceCalls \cup RegimeCalls
    \cup CombineCalls \cup SentimentCalls \cup TreeCalls \cup MergeCalls
    \cup EndpointCalls \cup ZeroTotalCalls \cup IndicatorCalls

NoRequest == Request(<<>>, 0, FALSE, None, None, FALSE)
NoEnv == Outcome({}, 0, 0, 0, "hi")

PureInit ==
    /\ call \in Calls
    /\ result = NoResult
    /\ request = NoRequest
    /\ env = NoEnv
    /\ model_weights = None
    /\ response = NoResponse
    /\ prev = NoPrev
    /\ runs = 0
    /\ trace = NoTrace

Return(v) ==
    /\ result' = [done |-> TRUE, value |-> v]
    /\ UNCHANGED <<request, env, model_weights, response, prev, runs, trace, call>>

CallDynamicWeights ==
    /\ call.fn = "calculate_dynamic_weights" /\ ~result.done
    /\ Return(calculate_dynamic_weights(call.model_predictions, call.market_regime))

CallModelAgreement ==
    /\ call.fn = "calculate_model_agreement" /\ ~result.done
    /\ Return(calculate_model_agreement(call.model_predictions))

CallFeatureImportance ==
    /\ call.fn = "calculate_feature_importance" /\ ~result.done
    /\ Return(calculate_feature_importance(call.prices, call.external_features,
                                           call.indicators))

CallDetectRegime ==
    /\ call.fn = "detect_market_regime" /\ ~result.done
    /\ Return(detect_market_regime(call.prices, call.volatility))

CallEnsemblePrediction ==
    /\ call.fn = "create_ensemble_prediction" /\ ~result.done
    /\ Return(create_ensemble_prediction(call.model_predictions, call.weights,
                                         call.market_regime))

CallSentimentForecast ==
    /\ call.fn = "news_sentiment_forecast" /\ ~result.done
    /\ Return(news_sentiment_forecast(call.prices, call.external_features,
                                      call.horizon, env))

\* a direct call of a tree adapter; the result also shows the external
\* columns of the feature matrix the call built and the feature rows of its
\* forecasting loop
CallTreeForecast ==
    /\ call.fn \in {"xgboost_forecast", "random_forest_forecast"} /\ ~result.done
    /\ LET name   == IF call.fn = "xgboost_forecast" THEN "XGBoost" ELSE "RandomForest"
           prices == PricesOf(call.rows)
           dates  == [i \in 1..Len(call.rows) |-> call.rows[i].ds]
       IN  result' = [done |-> TRUE,
                      value |-> tree_forecast(name, prices, call.horizon, call.outcome),
                      features |-> ExternalMatrix(name, dates, call.external_features,
                                                  call.horizon),
                      steps |-> forecast_features(name, prices, dates,
                                    call.external_features, call.horizon,
                                    call.outcome)]
    /\ UNCHANGED <<request, env, model_weights, response, prev, runs, trace, call>>

CallMergeDatasets ==
    /\ call.fn = "merge_datasets" /\ ~result.done
    /\ Return(merge_datasets(call.existing_df, call.new_df, call.key_columns))

CallTechnicalIndicators ==
    /\ call.fn = "calculate_technical_indicators" /\ ~result.done
    /\ Return(calculate_technical_indicators(call.prices))

CallEndpoint ==
    /\ call.fn = "enhanced_forecast_endpoint" /\ ~result.done
    /\ Return(enhanced_forecast_endpoint(call.rows, call.horizon, call.use_ensemble,
                                         call.outcome))

PureNext ==
    \/ CallTechnicalIndicators
    \/ CallEndpoint
    \/ CallMergeDatasets
    \/ CallTreeForecast
    \/ CallSentimentForecast
    \/ CallEnsemblePrediction
    \/ CallDynamicWeights
    \/ CallModelAgreement
    \/ CallFeatureImportance
    \/ CallDetectRegime

SpecPure == PureInit /\ [][PureNext]_vars

(***************************************************************************)
(* Properties                                                              *)
(***************************************************************************)
Served == runs > 0
Succeeded == Served /\ response.status = 200
ValidRequest == Len(request.rows) >= 5 /\ request.horizon_days >= 1

BandsOrdered(pt) == pt.yhat_lower <= pt.yhat /\ pt.yhat <= pt.yhat_upper

\* C1: a request with at least 5 rows and horizon h >= 1 gets, in either mode,
\* exactly h forecast points, each with yhat_lower <= yhat <= yhat_upper.
\* The code multiplies the estimate by 0.97 and 1.03, which inverts the band
\* of a negative estimate.
C1_HorizonPointsOrdered ==
    (Served /\ ValidRequest) =>
        /\ response.status = 200
        /\ Len(response.forecast) = request.horizon_days
        /\ \A i \in 1..Len(response.forecast) : BandsOrdered(response.forecast[i])

\* C2: the overall confidence of every forecast returned lies in [0.75, 0.95],
\* whatever the regime, the number of data points, the mode and the
\* per-model confidences.
C2_OverallConfidenceBounded ==
    Succeeded => (750 <= response.overall_confidence
                  /\ response.overall_confidence <= 950)

C2_Witness ==
    /\ Succeeded /\ request.use_ensemble
    /\ response.market_regime = "volatile"
    /\ \E i \in 1..6 : response.individual_models[i].confidence = 700
    /\ response.overall_confidence = 950

WeightCallDone == result.done /\ call.fn = "calculate_dynamic_weights"

\* confidence in [0, 1] and a MAPE, when supplied, not negative
InDataModel(model_pred) ==
    /\ 0 <= model_pred.confidence /\ model_pred.confidence <= ConfScale
    /\ IsNone(model_pred.mape) \/ Val(model_pred.mape) >= 0

\* C3: for every regime label and every non-empty list of predictions of
\* distinct models (confidence in [0, 1]), calculate_dynamic_weights returns
\* a map whose keys are exactly the models of the list, whose values lie in
\* [0, 1] and sum to 1.
C3_WeightsNormalized ==
    (WeightCallDone /\ \A k \in 1..Len(call.model_predictions) :
                          InDataModel(call.model_predictions[k])) =>
        LET wm == result.value
            names == NamesOf(call.model_predictions)
            order == CHOOSE q \in [1..Cardinality(names) -> names] :
                         \A m \in names : \E i \in DOMAIN q : q[i] = m
        IN  /\ DOMAIN wm.w = names
            /\ wm.den > 0
            /\ \A m \in names : 0 <= wm.w[m] /\ wm.w[m] <= wm.den
            /\ SumSeq([i \in DOMAIN order |-> wm.w[order[i]]]) = wm.den

C3_Witness ==
    /\ WeightCallDone
    /\ call.market_regime = "volatile"
    /\ NamesOf(call.model_predictions) = {"XGBoost", "Naive"}
    /\ \E i \in 1..2 : ~IsNone(call.model_predictions[i].mape)
    /\ result.value.w["XGBoost"] > result.value.w["Naive"]

\* C4: a request with fewer than 5 rows is rejected with a client error
\* (status 400) that reaches the caller unchanged, and nothing is computed
\* for it.  The code raises the 400 inside its own try block and converts it
\* to a 500.
C4_TooFewRowsIs400 ==
    (Served /\ Len(request.rows) < 5) =>
        (response.status = 400 /\ trace.ran = {})

\* C5: a request whose horizon is zero or negative is rejected with a
\* validation error: no adapter runs and no forecast object is returned.
\* The engine never looks at the sign of the horizon.
C5_NonPositiveHorizonRejected ==
    (Served /\ request.horizon_days <= 0) =>
        (response.status = 400 /\ trace.ran \cap Models = {})

\* C6: in ensemble mode, whichever adapters fail while fitting, each of them
\* hands back its fallback prediction (length h, confidence >= 0.70), the
\* request completes and the forecast carries all six model predictions.
C6_FailingAdaptersFallBack ==
    (Served /\ Len(request.rows) >= 5 /\ request.use_ensemble) =>
        /\ response.status = 200
        /\ Len(response.individual_models) = 6
        /\ {response.individual_models[i].model_name : i \in 1..6} = Models
        /\ Len(response.forecast) = Max2(0, request.horizon_days)
        /\ \A i \in 1..6 :
              LET m == response.individual_models[i]
              IN  m.model_name \in env.fail =>
                     /\ Len(m.predictions) = Max2(0, request.horizon_days)
                     /\ m.confidence >= 700
                     /\ IsNone(m.mape)

C6_Witness ==
    /\ Succeeded /\ request.use_ensemble
    /\ env.fail = Models
    /\ request.horizon_days = 3
    /\ Len(response.forecast) = 3

AgreementCallDone == result.done /\ call.fn = "calculate_model_agreement"

\* 1 - 5 * CV for two predictions a and b: CV = |a - b| / |a + b|
PairAgreement(a, b) ==
    Max2(500, Min2(950, 1000 - 5 * ((Abs(a - b) * 1000) \div Abs(a + b))))

\* C7: calculate_model_agreement returns exactly 1.0 if and only if fewer than
\* two predictions are supplied; with two or more the result lies in
\* [0.5, 0.95], depends on the first horizon step only, and for two models
\* with a non-zero mean it is max(0.5, min(0.95, 1 - 5 * CV)).
C7_AgreementFormula ==
    AgreementCallDone =>
        LET l == call.model_predictions
            firsts == [i \in 1..Len(l) |->
                          ModelPrediction(l[i].model_name, <<FirstDay(l[i])>>,
                                          l[i].confidence, l[i].mae, l[i].mape)]
        IN  /\ (result.value = 1000) <=> (Len(l) < 2)
            /\ Len(l) >= 2 => (500 <= result.value /\ result.value <= 950)
            /\ Len(l) >= 2 => result.value = calculate_model_agreement(firsts)
            /\ (Len(l) = 2 /\ FirstDay(l[1]) + FirstDay(l[2]) # 0) =>
                  result.value = PairAgreement(FirstDay(l[1]), FirstDay(l[2]))

C7_Witness ==
    /\ AgreementCallDone
    /\ Len(call.model_predictions) = 2
    /\ 500 < result.value /\ result.value < 950

ImportanceCallDone == result.done /\ call.fn = "calculate_feature_importance"

\* the nominal percentage of each feature family
NominalPercent(feature_name) ==
    CASE feature_name = "Price History"   -> 35
      [] feature_name = "RSI"             -> 15
      [] feature_name = "MACD"            -> 12
      [] feature_name = "Volatility"      -> 10
      [] feature_name = "DXY (USD Index)" -> 15
      [] feature_name = "News Sentiment"  -> 8

\* C8: whenever calculate_feature_importance reports a family, the
\* contributions sum to 100, each is the family's nominal percentage over the
\* sum of the nominal percentages present, and the currency-index and
\* sentiment families appear only if some external record carries the field.
C8_ImportanceNormalized ==
    (ImportanceCallDone /\ Len(result.value) > 0) =>
        LET fi == result.value
            feats == IF IsNone(call.external_features) THEN <<>>
                     ELSE Val(call.external_features)
            present == SumSeq([i \in 1..Len(fi) |-> NominalPercent(fi[i].feature_name)])
            total == SumSeq([i \in 1..Len(fi) |-> fi[i].contribution_percent])
        IN  /\ 100 * PctScale - Len(fi) <= total /\ total <= 100 * PctScale
            /\ \A i \in 1..Len(fi) :
                  fi[i].contribution_percent
                    = (NominalPercent(fi[i].feature_name) * 100 * PctScale) \div present
            /\ (\E i \in 1..Len(fi) : fi[i].feature_name = "DXY (USD Index)")
                  => \E j \in 1..Len(feats) : ~IsNone(feats[j].dxy)
            /\ (\E i \in 1..Len(fi) : fi[i].feature_name = "News Sentiment")
                  => \E j \in 1..Len(feats) : ~IsNone(feats[j].sentiment_score)

C8_Witness ==
    /\ ImportanceCallDone
    /\ Len(result.value) = 3
    /\ \E i \in 1..3 : result.value[i].feature_name = "News Sentiment"
    /\ \A i \in 1..3 : result.value[i].feature_name # "DXY (USD Index)"
    /\ ~IsNone(call.external_features)
    /\ \E j \in 1..Len(Val(call.external_features)) :
          IsNone(Val(call.external_features)[j].dxy)

\* C9: running the engine twice on an identical request, with the same
\* library outcomes, yields the same weights, regime, overall confidence and
\* forecast; the second run is unaffected by what the first one did.
C9_SecondRunIdentical ==
    runs >= 2 => (response = prev.response /\ trace.weights = prev.weights)

C9_Witness ==
    /\ runs = 2 /\ Succeeded /\ request.use_ensemble
    /\ ~IsNone(request.model_weights)
    /\ model_weights # request.model_weights
    /\ response = prev.response

\* the largest weights of a weight map belong to the two named models
Dominates(wm, a, b) ==
    \A m \in DOMAIN wm.w \ {a, b} : wm.w[m] < wm.w[a] /\ wm.w[m] < wm.w[b]

\* C10: for 20 prices with alternating +-10% swings and horizon 5 the regime
\* is "volatile" and the XGBoost and RandomForest weights are the largest.
\* The code has only 19 volatility values for 20 prices and takes the 0.15
\* default instead of their mean.
C10_ScenarioCVolatile ==
    (Served /\ request.rows = Alt(20) /\ request.horizon_days = 5
        /\ request.use_ensemble /\ IsNone(request.model_weights)) =>
        /\ response.status = 200
        /\ response.market_regime = "volatile"
        /\ Dominates(Val(trace.weights), "XGBoost", "RandomForest")

RegimeCallDone == result.done /\ call.fn = "detect_market_regime"

\* the mean of the last 20 volatility values exists and exceeds 0.25
AvgVolAbove(vol) ==
    /\ Len(vol) >= 20
    /\ \A i \in (Len(vol) - 19)..Len(vol) : vol[i] # NaN
    /\ SumSeq(SubSeq(vol, Len(vol) - 19, Len(vol))) \div 20 > 250

\* C11: detect_market_regime answers "stable" for fewer than 20 prices; from
\* 20 prices on, with trend = (last - price 20 back) / price 20 back, an
\* average volatility above 0.25 gives "volatile" whatever the trend is,
\* otherwise trend > 0.05 gives "bull", trend < -0.05 gives "bear", and
\* anything else "stable".
C11_RegimeFirstMatchWins ==
    RegimeCallDone =>
        LET ps    == call.prices
            n     == Len(ps)
            first == ps[n - 19]
            diff  == ps[n] - ps[n - 19]
        IN  IF n < 20 THEN result.value = "stable"
            ELSE /\ AvgVolAbove(call.volatility) => result.value = "volatile"
                 /\ ~AvgVolAbove(call.volatility) =>
                       /\ (100 * diff > 5 * first) => result.value = "bull"
                       /\ (100 * diff < -5 * first) => result.value = "bear"
                       /\ (100 * diff <= 5 * first /\ 100 * diff >= -5 * first)
                             => result.value = "stable"

C11_Witness ==
    /\ RegimeCallDone
    /\ Len(call.prices) >= 20
    /\ 100 * (LastOf(call.prices) - call.prices[Len(call.prices) - 19])
          > 5 * call.prices[Len(call.prices) - 19]
    /\ AvgVolAbove(call.volatility)
    /\ result.value = "volatile"

InPolicyBounds(c) == 750 <= c /\ c <= 950

\* C12: every confidence a response reports, the overall one and the one of
\* each entry of individual_models, lies in [0.75, 0.95].  The entries of
\* individual_models carry the adapters' own confidences, which start at
\* 0.70 (fallbacks) and 0.65 (sentiment).
C12_AllConfidencesNormalized ==
    Succeeded =>
        /\ InPolicyBounds(response.overall_confidence)
        /\ \A i \in 1..Len(response.individual_models) :
              InPolicyBounds(response.individual_models[i].confidence)

CombineCallDone == result.done /\ call.fn = "create_ensemble_prediction"

\* every prediction vector of the list has the length of the first
SameLength(l) ==
    \A k \in 1..Len(l) : Len(l[k].predictions) = Len(l[1].predictions)

\* sum over the models of the list of their weight in wm
WeightTotal(l, wm) == SumSeq([k \in 1..Len(l) |-> wm.w[l[k].model_name]])

\* the weight of model m in wm, the fraction w[m] / den, is not negative
NonNegative(wm, m) ==
    (wm.den > 0 /\ wm.w[m] >= 0) \/ (wm.den < 0 /\ wm.w[m] <= 0)

\* C13: create_ensemble_prediction fails, returning no forecast, when it is
\* given no ModelPrediction; given at least one (vectors of one length h) it
\* returns h values, value i being the sum over the models present of
\* weight * prediction i with weights that sum to 1: models that all predict
\* the same vector get that vector back, and with non-negative weights every
\* value lies between the smallest and the largest prediction of its step.
C13_WeightedSumOrFailure ==
    CombineCallDone =>
        LET l == call.model_predictions
            r == result.value
        IN  /\ Len(l) = 0 =>
                  (~r.ok /\ "value" \notin DOMAIN r
                         /\ r.error = "No model predictions provided")
            /\ (Len(l) >= 1 /\ SameLength(l)) =>
                  /\ r.ok
                  /\ Len(r.value) = Len(l[1].predictions)
                  /\ r.applied.den # 0
                  /\ WeightTotal(l, r.applied) = r.applied.den
                  /\ \A i \in 1..Len(r.value) :
                        /\ r.value[i] =
                              SumDiv([k \in 1..Len(l) |->
                                         l[k].predictions[i]
                                           * r.applied.w[l[k].model_name]],
                                     r.applied.den)
                        /\ (\A k \in 1..Len(l) : l[k].predictions = l[1].predictions)
                              => r.value[i] = l[1].predictions[i]
                        /\ (\A k \in 1..Len(l) : NonNegative(r.applied, l[k].model_name))
                              => /\ \E k \in 1..Len(l) : l[k].predictions[i] <= r.value[i]
                                 /\ \E k \in 1..Len(l) : l[k].predictions[i] >= r.value[i]

C13_Witness ==
    /\ CombineCallDone
    /\ Len(call.model_predictions) = 3
    /\ IsNone(call.weights)
    /\ result.value.ok
    /\ \E k \in 1..3 :
          call.model_predictions[k].predictions # call.model_predictions[1].predictions
    /\ Len(result.value.value) = 2
    /\ result.value.value[1] > 0

\* every weight of the map wm lies in [0, 1]
UnitWeights(wm) == \A m \in DOMAIN wm.w : 0 <= wm.w[m] /\ wm.w[m] <= wm.den

\* the override's weight of model m times N * den, 1 / N for a model it
\* leaves out (N the number of predictions)
OverrideShare(ov, n, m) == IF m \in DOMAIN ov.w THEN ov.w[m] * n ELSE ov.den

\* C14: with an explicit override (weights in [0, 1]) the weights applied by
\* create_ensemble_prediction are a function of the override alone: the
\* override's weight of each model present (1 / N for a model the override
\* leaves out), divided by their total, or 1 / N each when the total is 0;
\* neither the regime nor any confidence enters.  They sum to 1 over the
\* models present and each lies in [0, 1].
C14_OverrideAloneRenormalized ==
    (CombineCallDone /\ ~IsNone(call.weights) /\ UnitWeights(Val(call.weights))
        /\ Len(call.model_predictions) >= 1 /\ SameLength(call.model_predictions)) =>
        LET l  == call.model_predictions
            n  == Len(l)
            ov == Val(call.weights)
            a  == result.value.applied
            total == SumSeq([k \in 1..n |-> OverrideShare(ov, n, l[k].model_name)])
        IN  /\ result.value.ok
            /\ a.den > 0
            /\ WeightTotal(l, a) = a.den
            /\ \A k \in 1..n :
                  LET m == l[k].model_name
                  IN  /\ 0 <= a.w[m] /\ a.w[m] <= a.den
                      /\ IF total = 0 THEN a.w[m] * n = a.den
                         ELSE a.w[m] * total = OverrideShare(ov, n, m) * a.den

C14_Witness ==
    /\ CombineCallDone
    /\ call.weights = Override([XGBoost |-> 45, LSTM |-> 15])
    /\ NamesOf(call.model_predictions) = {"Prophet", "XGBoost"}
    /\ call.market_regime = "volatile"
    /\ call.model_predictions[1].confidence > call.model_predictions[2].confidence
    /\ result.value.ok
    /\ result.value.applied.w["XGBoost"] * 5 = result.value.applied.den * 3

NamesInOrder(models) == [i \in 1..Len(models) |-> models[i].model_name]

\* C15: in basic mode only the Prophet adapter runs: individual_models has
\* the one entry, the prediction vector returned is that adapter's (to the
\* cent, the resolution the response rounds to), the overall confidence is
\* the normalizer applied to that adapter's confidence and there is no
\* feature importance, whatever include_feature_importance says.  In
\* ensemble mode the six adapters run, each once.
C15_BasicModeProphetOnly ==
    (Served /\ Len(request.rows) >= 5) =>
        /\ response.status = 200
        /\ ~request.use_ensemble =>
              /\ NamesInOrder(response.individual_models) = <<"Prophet">>
              /\ trace.ran \cap Models = {"Prophet"}
              /\ trace.ran \cap {"combine", "feature_importance"} = {}
              /\ response.ensemble_prediction = response.individual_models[1].predictions
              /\ [i \in 1..Len(response.forecast) |-> response.forecast[i].yhat]
                    = response.individual_models[1].predictions
              /\ response.overall_confidence =
                    RoundTo(adjust_confidence_by_regime(
                                response.individual_models[1].confidence
                                    * (Micro \div ConfScale),
                                response.market_regime, Len(request.rows)), 1000)
              /\ IsNone(response.feature_importance)
        /\ request.use_ensemble =>
              /\ NamesInOrder(response.individual_models) = AdapterOrder
              /\ trace.ran \cap Models = Models

C15_Witness ==
    /\ Succeeded /\ ~request.use_ensemble
    /\ request.include_feature_importance
    /\ request.horizon_days = 3
    /\ response.market_regime = "bull"
    /\ Len(response.individual_models) = 1
    /\ response.ensemble_prediction[3] > LastOf(request.rows).price
    /\ IsNone(response.feature_importance)

\* the place of a model in the order the orchestrator runs the adapters
Rank(name) ==
    CASE name = "Prophet" -> 1 [] name = "LSTM" -> 2 [] name = "XGBoost" -> 3
      [] name = "RandomForest" -> 4 [] name = "ARIMA" -> 5
      [] name = "Sentiment" -> 6 [] OTHER -> 7

DistinctNames(l) == Cardinality(NamesOf(l)) = Len(l)

\* the predictions of l in the orchestrator's order
Canonical(l) ==
    [i \in 1..Len(l) |->
        l[CHOOSE k \in 1..Len(l) :
            Cardinality({j \in 1..Len(l) :
                Rank(l[j].model_name) < Rank(l[k].model_name)}) = i - 1]]

OrderedCallDone ==
    /\ result.done
    /\ call.fn \in {"create_ensemble_prediction", "calculate_dynamic_weights",
                     "calculate_model_agreement"}
    /\ DistinctNames(call.model_predictions)
    /\ SameLength(call.model_predictions)

\* C16: the combined forecast, the weights and the agreement score computed
\* from a list of predictions (distinct models, vectors of one length) are
\* those computed from the same predictions in the orchestrator's order,
\* whatever order they arrive in.
C16_OrderIndependent ==
    OrderedCallDone =>
        LET l == call.model_predictions
            c == Canonical(l)
        IN  /\ call.fn = "calculate_dynamic_weights" =>
                  result.value = calculate_dynamic_weights(c, call.market_regime)
            /\ call.fn = "calculate_model_agreement" =>
                  result.value = calculate_model_agreement(c)
            /\ call.fn = "create_ensemble_prediction" =>
                  LET rc == create_ensemble_prediction(c, call.weights, call.market_regime)
                  IN  /\ result.value.ok = rc.ok
                      /\ rc.ok => /\ result.value.value = rc.value
                                   /\ result.value.applied = rc.applied

\* a call on six predictions arriving in the reverse of the orchestrator's order
ReversedSix ==
    /\ Len(call.model_predictions) = 6
    /\ \A i \in 1..6 : call.model_predictions[i].model_name = AdapterOrder[7 - i]
    /\ call.model_predictions[6].confidence = 950

C16_Witness ==
    /\ OrderedCallDone /\ ReversedSix
    /\ call.fn = "create_ensemble_prediction"
    /\ IsNone(call.weights)
    /\ result.value.ok
    /\ result.value.value # call.model_predictions[1].predictions
    /\ result.value.value # call.model_predictions[6].predictions

\* C17: create_ensemble_prediction leaves the weight map its caller passed as
\* it found it.  The code writes 1 / N into that map for every model of the
\* list the map does not name.
C17_OverrideMapUnchanged ==
    (CombineCallDone /\ ~IsNone(call.weights)) =>
        result.value.weights_after = call.weights

SentimentCallDone == result.done /\ call.fn = "news_sentiment_forecast"

\* the sentiment scores among the last 7 records supplied
RecentScores(external_features) ==
    LET feats == IF IsNone(external_features) THEN <<>> ELSE Val(external_features)
        last7 == LastK(feats, 7)
    IN  SelectSeq([i \in 1..Len(last7) |-> last7[i].sentiment_score],
                  LAMBDA o : ~IsNone(o))

AvgScore(scores) == SumSeq([i \in 1..Len(scores) |-> Val(scores[i])]) \div Len(scores)

\* last_price * (1 + avg_sentiment * 0.02 * tenths / 10), in cents
SentimentPrice(last_price, avg_sentiment, tenths) ==
    last_price + MulDiv(last_price * tenths, 2 * avg_sentiment, 1000000)

TreeCallDone ==
    result.done /\ call.fn \in {"xgboost_forecast", "random_forest_forecast"}

\* the flat-line forecast: h copies of the last price at confidence 0.70
IsFlatLine(pred, prices, horizon) ==
    /\ pred.predictions = [i \in 1..horizon |-> LastOf(prices)]
    /\ pred.confidence = 700

\* some record of the optional list carries a sentiment score
CarriesScore(external_features) ==
    /\ ~IsNone(external_features)
    /\ \E i \in 1..Len(Val(external_features)) :
          ~IsNone(Val(external_features)[i].sentiment_score)

\* C19 as claimed: the Sentiment adapter returns the flat-line forecast if
\* and only if no record supplied carries a sentiment score.  The code looks
\* at the last 7 records only.
C19_FlatIffNoScoreSupplied ==
    (SentimentCallDone /\ call.horizon >= 1) =>
        (IsFlatLine(result.value, call.prices, call.horizon)
            <=> ~CarriesScore(call.external_features))

\* the records of the list without those that carry no sentiment score
Scored(external_features) ==
    IF IsNone(external_features) THEN None
    ELSE Some(SelectSeq(Val(external_features),
                        LAMBDA f : ~IsNone(f.sentiment_score)))

\* C19, amended: for h >= 1 the Sentiment adapter returns the flat-line
\* forecast (h copies of the last price, confidence 0.70) if and only if
\* none of the last 7 records supplied carries a sentiment score.  A record
\* with absent fields never causes an error in an adapter and contributes
\* zero: the Sentiment adapter and the tree adapters return a prediction of
\* length h, the sentiment forecast is the one the scored records among the
\* last 7 give alone, a tree adapter fits exactly when the series is long
\* enough, and every external column it builds for an absent field is 0.
C19_FlatIffNoRecentScore ==
    /\ SentimentCallDone =>
          LET feats  == IF IsNone(call.external_features) THEN <<>>
                        ELSE Val(call.external_features)
              last7  == Some(LastK(feats, 7))
          IN  /\ result.value.model_name = "Sentiment"
              /\ Len(result.value.predictions) = call.horizon
              /\ call.horizon >= 1 =>
                    (IsFlatLine(result.value, call.prices, call.horizon)
                        <=> ~CarriesScore(last7))
              /\ result.value =
                    news_sentiment_forecast(call.prices, Scored(last7), call.horizon, env)
    /\ TreeCallDone =>
          LET feats == IF IsNone(call.external_features) THEN <<>>
                       ELSE Val(call.external_features)
              X == result.features
          IN  /\ Len(result.value.predictions) = call.horizon
              /\ ~IsNone(result.value.mape) <=> TreeCanFit(Len(call.rows), call.horizon)
              /\ \A r \in 1..Len(X) :
                    LET day  == call.rows[r + 5].ds
                        recs == {k \in 1..Len(feats) : feats[k].ds = day}
                        last == Len(X[r])
                    IN  /\ last = (IF Len(feats) = 0 THEN 0
                                   ELSE IF call.fn = "xgboost_forecast" THEN 4 ELSE 2)
                        /\ (last > 0 /\ \A k \in recs : IsNone(feats[k].dxy))
                              => X[r][1] = 0
                        /\ (last > 0 /\ \A k \in recs : IsNone(feats[k].sentiment_score))
                              => X[r][last] = 0
                        /\ last = 4 => (X[r][2] = 0 /\ X[r][3] = 0)

\* a signal whose only score lies outside the last 7 records
C19_Witness ==
    /\ SentimentCallDone
    /\ call.external_features = Some(ScoreThenSilent(1000, 7))
    /\ call.horizon = 3
    /\ IsFlatLine(result.value, call.prices, 3)

\* a tree adapter that fitted on rows holding a record with absent fields
TreeFittedOnSparseRecord ==
    /\ TreeCallDone
    /\ ~IsNone(result.value.mape)
    /\ \E r \in 1..Len(result.features) : result.features[r] = <<10300, 0, 0, 0>>

MergeCallDone == result.done /\ call.fn = "merge_datasets"

\* a row with its date written as YYYY-MM-DD
IsoRow(r) == [r EXCEPT !.ds = <<r.ds[1], "iso">>]

\* the key of a row: its values in key_columns, the date as the day it names
KeyOf(r, key_columns) ==
    [c \in 1..Len(key_columns) |->
        IF key_columns[c] = "ds" THEN r.ds[1] ELSE r[key_columns[c]]]

KeysOf(df, key_columns) == {KeyOf(df[i], key_columns) : i \in 1..Len(df)}

\* how many rows of df are the row r, dates compared by day
CountOf(df, r) == Cardinality({i \in 1..Len(df) : IsoRow(df[i]) = IsoRow(r)})

\* C20: merge_datasets(existing, new, key_columns) returns every row of new
\* and exactly those rows of existing whose key, the values of key_columns,
\* does not occur in new; with disjoint keys the result has
\* len(existing) + len(new) rows.  The code never reads key_columns: it
\* drops every existing row whose date occurs in new.
C20_MergeByKey ==
    MergeCallDone =>
        LET e == call.existing_df
            n == call.new_df
            k == call.key_columns
            survivors == SelectSeq(e, LAMBDA r : KeyOf(r, k) \notin KeysOf(n, k))
        IN  /\ \A r \in ExistingRows \cup NewRows :
                  CountOf(result.value, r) = CountOf(n, r) + CountOf(survivors, r)
            /\ Len(result.value) = Len(n) + Len(survivors)
            /\ KeysOf(e, k) \cap KeysOf(n, k) = {} =>
                  Len(result.value) = Len(e) + Len(n)

EndpointCallDone == result.done /\ call.fn = "enhanced_forecast_endpoint"

\* the flag values the interface names: a boolean, one of the strings
\* "true", "false", "1", "0", "yes" in any letter case, null, or no flag
NamedFlag(raw) ==
    \/ raw.kind \in {"bool", "null", "absent"}
    \/ raw.kind = "str" /\ lower(raw.s) \in {<<"t", "r", "u", "e">>,
                               <<"f", "a", "l", "s", "e">>, <<"1">>, <<"0">>,
                               <<"y", "e", "s">>}

\* the mode the interface assigns to a named flag value
SelectsEnsemble(raw) ==
    CASE raw.kind = "bool" -> raw.b
      [] raw.kind = "str"  -> lower(raw.s) \in {<<"t", "r", "u", "e">>, <<"1">>,
                                                 <<"y", "e", "s">>}
      [] OTHER -> TRUE

\* C21: a request (at least 5 rows) whose ensemble flag is a boolean, one of
\* the strings "true"/"false"/"1"/"0"/"yes" in any letter case, null or
\* absent is served, in ensemble mode (six models) for true, "true", "1",
\* "yes", null and an absent flag, in basic mode (one model) for the others.
\* The request model declares the flag as a plain boolean, so a null flag is
\* rejected with a validation error before the handler sees it.
C21_FlagFormsAccepted ==
    (EndpointCallDone /\ Len(call.rows) >= 5 /\ NamedFlag(call.use_ensemble)) =>
        /\ result.value.status = 200
        /\ Len(result.value.individual_models)
              = (IF SelectsEnsemble(call.use_ensemble) THEN 6 ELSE 1)

\* base_weight * (0.5 + 0.5 * confidence), in units of 1 / AdjUnit
PlainWeight(market_regime, model_pred) ==
    LET table == regime_weights(market_regime)
        base  == IF model_pred.model_name \in DOMAIN table
                 THEN table[model_pred.model_name] ELSE 10
    IN  base * (ConfScale + model_pred.confidence)

\* 0.7 + 0.3 / (1 + MAPE / 10), in thousandths
ErrorFactor(mape) == 700 + 3000 \div (10 + mape)

\* C22: for each model of the list (distinct models, confidence in [0, 1])
\* the weight calculate_dynamic_weights returns is, before the division by
\* the total, base_weight(regime, model) * (0.5 + 0.5 * confidence), times
\* 0.7 + 0.3 / (1 + MAPE / 10) whenever the model supplies a MAPE, a MAPE of
\* exactly 0 included (the factor is then 1); the total is their sum.
C22_AdjustedWeightFormula ==
    (WeightCallDone /\ DistinctNames(call.model_predictions)
        /\ \A k \in 1..Len(call.model_predictions) :
              InDataModel(call.model_predictions[k])) =>
        LET l  == call.model_predictions
            wm == result.value
            expected(p) ==
                IF IsNone(p.mape) THEN PlainWeight(call.market_regime, p)
                ELSE (PlainWeight(call.market_regime, p) * ErrorFactor(Val(p.mape)))
                        \div 1000
        IN  /\ \A k \in 1..Len(l) : wm.w[l[k].model_name] = expected(l[k])
            /\ wm.den = SumSeq([k \in 1..Len(l) |-> expected(l[k])])
            /\ \A k \in 1..Len(l) :
                  l[k].mape = Some(0) =>
                      wm.w[l[k].model_name] = PlainWeight(call.market_regime, l[k])

C22_Witness ==
    /\ WeightCallDone
    /\ call.market_regime = "volatile"
    /\ Len(call.model_predictions) = 3
    /\ call.model_predictions[1].model_name = "Prophet"
    /\ call.model_predictions[1].mape = Some(0)
    /\ call.model_predictions[2].model_name = "XGBoost"
    /\ call.model_predictions[2].mape = Some(5)
    /\ call.model_predictions[2].confidence = 950
    /\ IsNone(call.model_predictions[3].mape)
    /\ result.value.w["Prophet"] = 15 * 2000
    /\ result.value.w["XGBoost"] = (35 * 1950 * 900) \div 1000

\* the adjusted weight of a prediction, in units of 1 / AdjUnit
AdjustedWeight(market_regime, p) ==
    IF IsNone(p.mape) THEN PlainWeight(market_regime, p)
    ELSE (PlainWeight(market_regime, p) * ErrorFactor(Val(p.mape))) \div 1000

IndicatorCallDone == result.done /\ call.fn = "calculate_technical_indicators"

\* the six arrays of an IndicatorSet
ArraysOf(ind) ==
    <<ind.rsi, ind.macd, ind.macd_signal, ind.sma20, ind.sma50, ind.volatility>>

\* C24: for n >= 1 prices each of the six arrays calculate_technical_indicators
\* returns has length exactly n.  From 5 prices on the volatility array is
\* computed from the n - 1 returns, and from 14 prices on the rsi array from
\* the n - 1 price differences: both are one short.
C24_IndicatorsAligned ==
    (IndicatorCallDone /\ Len(call.prices) >= 1) =>
        \A k \in 1..6 : Len(ArraysOf(result.value)[k]) = Len(call.prices)

Const(n, v) == [i \in 1..n |-> v]

\* the first k entries of an array are NaN and the others are not
LeadsWithNaN(a, k) ==
    /\ Len(a) >= k
    /\ \A i \in 1..Len(a) : (a[i] = NaN) <=> (i <= k)

\* C25: calculate_technical_indicators returns its six arrays for every
\* price array and applies each fallback exactly below its threshold: rsi
\* is the constant 50 for n < 14 and computed from 14 prices on (its first
\* 13 entries, all there are at n = 14, are NaN), macd and
\* macd_signal are zeros for n < 26 and the difference of the two moving
\* averages from 26 on, sma20 and sma50 are the prices for n < 20 and rolling
\* means from 20 on, volatility is zeros for n < 5 and the rolling deviation
\* of the returns from 5 on.
C25_FallbacksBelowThresholds ==
    IndicatorCallDone =>
        LET ps  == call.prices
            n   == Len(ps)
            ind == result.value
            raw == [i \in 1..n |-> ps[i] * 100]
        IN  /\ DOMAIN ind = IndicatorKeys
            /\ IF n < 14 THEN ind.rsi = Const(n, 5000)
               ELSE /\ LeadsWithNaN(ind.rsi, 13)
                    /\ \A i \in 14..Len(ind.rsi) : 0 <= ind.rsi[i] /\ ind.rsi[i] <= 10000
                    /\ Len(ind.rsi) = n - 1
            /\ IF n < 26 THEN ind.macd = Const(n, 0) /\ ind.macd_signal = Const(n, 0)
               ELSE /\ Len(ind.macd) = n /\ Len(ind.macd_signal) = n
                    /\ ind.macd[1] = 0 /\ ind.macd_signal[1] = 0
                    /\ (ps[n] > ps[1] /\ \A i \in 1..(n - 1) : ps[i] <= ps[i + 1])
                          => ind.macd[n] > 0
            /\ IF n < 20 THEN ind.sma20 = raw /\ ind.sma50 = raw
               ELSE /\ LeadsWithNaN(ind.sma20, 19)
                    /\ LeadsWithNaN(ind.sma50, Min2(50, n) - 1)
                    /\ ind.sma20[n] = (SumSeq(SubSeq(ps, n - 19, n)) * 100) \div 20
                    /\ Len(ind.sma20) = n /\ Len(ind.sma50) = n
            /\ IF n < 5 THEN ind.volatility = Const(n, 0)
               ELSE /\ Len(ind.volatility) = n - 1
                    /\ \A i \in 1..4 : ind.volatility[i] = NaN
                    /\ \A i \in 5..(n - 1) :
                          ind.volatility[i] = NaN \/ ind.volatility[i] >= 0

\* 15 rising prices: rsi and volatility computed, macd and the moving
\* averages still on their fallbacks
C25_Witness ==
    /\ IndicatorCallDone
    /\ Len(call.prices) = 15
    /\ call.prices[15] > call.prices[1]
    /\ result.value.rsi[14] = 9999
    /\ result.value.macd = Const(15, 0)
    /\ result.value.sma20[15] = call.prices[15] * 100
    /\ result.value.volatility[14] # NaN

\* a tree adapter that fitted and forecast at least one step
TreeForecastDone ==
    TreeCallDone /\ call.horizon >= 1 /\ Len(result.steps) > 0

TreeName == IF call.fn = "xgboost_forecast" THEN "XGBoost" ELSE "RandomForest"

\* C26: in both tree adapters each step of the forecasting loop puts the
\* prediction just made in lag 1, moves the older price lags back by one
\* and leaves every other feature (indicators and external columns) in its
\* position with its value.  The RandomForest loop shifts the whole row
\* instead: the indicators and external columns move one place back and the
\* last column is lost.
C26_RecursiveLagUpdate ==
    TreeForecastDone =>
        LET F == result.steps
            p == result.value.predictions
            lags == Lags(TreeName)
        IN  /\ Len(F) = call.horizon + 1
            /\ \A k \in 1..call.horizon :
                  /\ Len(F[k + 1]) = Len(F[k])
                  /\ F[k + 1][1] = p[k]
                  /\ \A j \in 2..lags : F[k + 1][j] = F[k][j - 1]
                  /\ \A j \in (lags + 1)..Len(F[k]) : F[k + 1][j] = F[k][j]

\* the six adapters' predictions with one confidence and no MAPE: the
\* weights returned for them are the priors themselves
UniformSix(l) ==
    /\ Len(l) = 6
    /\ NamesOf(l) = Models
    /\ \A k \in 1..6 : l[k].confidence = l[1].confidence /\ IsNone(l[k].mape)
    /\ l[1].confidence >= 0

\* C27: the regime priors are a fixed table.  For each of the four regimes
\* the base weights of the six models sum to 1.0; stable gives Prophet the
\* largest weight, 0.30, and volatile gives XGBoost the largest, 0.35.  The
\* table is built anew by every call of calculate_dynamic_weights, so every
\* call reads these values: six models of equal confidence get the priors
\* of the regime back as their weights.
C27_PriorTableFixed ==
    /\ \A r \in Regimes :
          /\ DOMAIN regime_weights(r) = Models
          /\ SumSeq([i \in 1..6 |-> regime_weights(r)[AdapterOrder[i]]]) = 100
    /\ regime_weights("stable")["Prophet"] = 30
    /\ \A m \in Models \ {"Prophet"} : regime_weights("stable")[m] < 30
    /\ regime_weights("volatile")["XGBoost"] = 35
    /\ \A m \in Models \ {"XGBoost"} : regime_weights("volatile")[m] < 35
    /\ (WeightCallDone /\ UniformSix(call.model_predictions)
            /\ call.market_regime \in Regimes) =>
          \A m \in Models :
              result.value.w[m] * 100
                  = regime_weights(call.market_regime)[m] * result.value.den

C27_Witness ==
    /\ WeightCallDone /\ UniformSix(call.model_predictions)
    /\ call.market_regime = "volatile"
    /\ call.model_predictions[1].confidence = 700
    /\ result.value.w["XGBoost"] * 100 = 35 * result.value.den
    /\ \A m \in Models \ {"XGBoost"} : result.value.w[m] < result.value.w["XGBoost"]

\* C28: in ensemble mode every valid request (at least 5 rows, horizon
\* >= 1) is answered with an overall confidence of exactly 0.95: the mean of
\* the adapter confidences is at least 0.70, and 0.70 * 1.15 * 1.05 times
\* the regime and data multipliers a request can reach together is above the
\* ceiling.
C28_EnsembleConfidenceAtCeiling ==
    (Served /\ ValidRequest /\ request.use_ensemble) =>
        /\ response.status = 200
        /\ response.overall_confidence = 950
        /\ \A i \in 1..Len(response.individual_models) :
              response.individual_models[i].confidence >= 650
        /\ response.market_regime = "volatile" => Len(request.rows) >= 21
        /\ response.market_regime \in {"bull", "bear"} => Len(request.rows) >= 20

\* the least confident run: every other adapter on its fallback, a neutral
\* sentiment signal, a volatile market
C28_Witness ==
    /\ Succeeded /\ ValidRequest /\ request.use_ensemble
    /\ response.market_regime = "volatile"
    /\ env.fail = Models \ {"Sentiment"}
    /\ response.individual_models[6].confidence = 650
    /\ \A i \in 1..4 : response.individual_models[i].confidence = 700
    /\ response.overall_confidence = 950

\* C29: for a horizon h >= 0 and n prices with n < h + 8 both tree adapters
\* return their fallback, h copies of the last price at confidence 0.70 with
\* neither mae nor mape, so their weight carries no error factor under any
\* regime; for n >= h + 8 the feature matrix has exactly n - h - 5 rows and
\* the adapter, its library calls succeeding, returns a fitted prediction.
C29_TreeFallbackBelowEightPlusH ==
    TreeCallDone =>
        LET n == Len(call.rows)
            h == call.horizon
            p == result.value
        IN  /\ n < h + 8 =>
                  /\ IsFlatLine(p, PricesOf(call.rows), h)
                  /\ IsNone(p.mae) /\ IsNone(p.mape)
                  /\ Len(result.steps) = 0
                  /\ \A r \in RegimeLabels :
                        confidence_adjusted(regime_weights(r), p) = PlainWeight(r, p)
            /\ n >= h + 8 =>
                  /\ Len(result.features) = n - h - 5
                  /\ (TreeName \notin call.outcome.fail) =>
                        (~IsNone(p.mape) /\ ~IsNone(p.mae) /\ Len(p.predictions) = h)

\* ten prices and horizon 3: one training row short, with a library that
\* would have fitted
C29_Witness ==
    /\ TreeCallDone
    /\ Len(call.rows) = 10 /\ call.horizon = 3
    /\ call.outcome.fail = {}
    /\ IsFlatLine(result.value, PricesOf(call.rows), 3)
    /\ IsNone(result.value.mape)
    /\ Len(result.features) = 2

\* ten prices and horizon 2: the shortest series the adapters fit on
TreeFittedOnThreeRows ==
    /\ TreeCallDone
    /\ Len(call.rows) = 10 /\ call.horizon = 2
    /\ Len(result.features) = 3
    /\ ~IsNone(result.value.mape)

\* value i of the weighted sum of the models' predictions under the weights wm
WeightedAt(models, wm, i) ==
    SumDiv([k \in 1..Len(models) |->
               models[k].predictions[i] * wm.w[models[k].model_name]], wm.den)

\* x (cents) is the product of y (cents) and percent / 100 rounded to the cent
RoundedShare(x, y, percent) == Abs(100 * x - percent * y) <= 50

\* C30: forecast point i of a response is dated i days after the date of
\* the last row of the request as listed, so the dates of the forecast
\* increase by one day from point to point whatever the order and the gaps
\* of the input dates; yhat is the combined prediction of day i (the
\* weighted sum in ensemble mode, Prophet's prediction in basic mode) and
\* yhat_lower and yhat_upper are 0.97 and 1.03 times it, to the cent.
C30_ForecastDatesAndBands ==
    Succeeded =>
        LET f == response.forecast
            last_date == LastOf(request.rows).ds
            models == response.individual_models
        IN  /\ Len(f) = Len(response.ensemble_prediction)
            /\ \A i \in 1..Len(f) :
                  /\ f[i].ds = last_date + i
                  /\ i > 1 => f[i].ds = f[i - 1].ds + 1
                  /\ f[i].yhat = response.ensemble_prediction[i]
                  /\ f[i].yhat =
                        (IF request.use_ensemble
                         THEN WeightedAt(models, Val(trace.weights), i)
                         ELSE models[1].predictions[i])
                  /\ RoundedShare(f[i].yhat_lower, f[i].yhat, 97)
                  /\ RoundedShare(f[i].yhat_upper, f[i].yhat, 103)

\* rows listed latest day first: the forecast starts the day after the
\* earliest date, inside the span of the input
C30_Witness ==
    /\ Succeeded /\ request.use_ensemble
    /\ request.horizon_days = 3
    /\ request.rows[1].ds > LastOf(request.rows).ds
    /\ request.rows[2].ds # request.rows[1].ds - 1
    /\ response.forecast[1].ds = LastOf(request.rows).ds + 1
    /\ response.forecast[3].ds = LastOf(request.rows).ds + 3
    /\ response.forecast[3].ds < request.rows[1].ds
    /\ response.forecast[1].yhat_lower < response.forecast[1].yhat

====
